---- MODULE Spec2Model ----
(***************************************************************************)
(* Reconciliation / provenance engine of Medparse.                         *)
(*                                                                         *)
(* Strings are sequences of one-character strings, so that lower(),        *)
(* strip(), split() and norm_text() are computed as the code computes      *)
(* them.  Python values that may be None, a string, an int or a list are   *)
(* records [k, n, s] with a kind tag k.                                    *)
(***************************************************************************)
EXTENDS Integers, Sequences, FiniteSets, TLC

VARIABLES
    lib,        \* index of the loaded Zotero library (CSL-JSON + CSV)
    overrides,  \* index of the loaded --overrides table (0: none given)
    strict,     \* --strict
    dry_run,    \* --dry-run
    min_fuzzy,  \* --min-fuzzy, in ten-thousandths
    pc,         \* position of main(): "loop", "done" or "crashed"
    idx,        \* number of files of the sorted listing taken so far
    summary,    \* the summary counters of main()
    report,     \* report_rows, one per processed file
    outdir,     \* outdir: file index -> written document, or NoFile
    exit_code,  \* exit status of the run, -1 while it is running
    last,       \* outcome of the last ProcessFile step
    doc,        \* the one document followed through repeated passes
    hist,       \* the passes applied to doc, oldest first
    step,       \* what the last pass did to doc
    call,       \* the last call of a pure helper: its arguments and result
    dd,         \* dedupe_by_doi.py: the input directory and the last run
    ci,         \* ci_gate.py: the summary, the ceilings and the verdict
    rt,         \* http_retry.py: one wrapped call and its attempts
    en,         \* enrich_online.py: the batch run of main()
    au,         \* audit_extracted.py: the corpus and the audit reports
    hd          \* harden_extracted.py: the batch run of main()

tools == <<call, dd, ci, rt, en, au, hd>>

vars == <<lib, overrides, strict, dry_run, min_fuzzy, pc, idx, summary,
          report, outdir, exit_code, last, doc, hist, step, call, dd, ci, rt, en,
          au, hd>>

-----------------------------------------------------------------------------
(* Characters and strings *)

UpperChars == <<"A","B","C","D","E","F","G","H","I","J","K","L","M",
                "N","O","P","Q","R","S","T","U","V","W","X","Y","Z">>
LowerChars == <<"a","b","c","d","e","f","g","h","i","j","k","l","m",
                "n","o","p","q","r","s","t","u","v","w","x","y","z">>
DigitChars == <<"0","1","2","3","4","5","6","7","8","9">>

Range(s) == {s[i] : i \in DOMAIN s}

UpperSet == Range(UpperChars)
DigitSet == Range(DigitChars)

\* "E_ACUTE" is the precomposed letter e-acute, "COMB_ACUTE" the combining
\* acute accent (category Mn) its NFKD decomposition ends with.
AlnumSet == UpperSet \cup Range(LowerChars) \cup DigitSet \cup {"E_ACUTE"}

IsAlnum(c) == c \in AlnumSet

IsSpace(c) == c \in {" ", "\t", "\n"}

IsDigit(c) == c \in DigitSet

LowerOf == [c \in UpperSet |->
              LowerChars[CHOOSE i \in DOMAIN UpperChars : UpperChars[i] = c]]

ToLower(c) == IF c \in UpperSet THEN LowerOf[c] ELSE c

Lower(s) == [i \in DOMAIN s |-> ToLower(s[i])]

RECURSIVE LStrip(_)
LStrip(s) == IF s # <<>> /\ IsSpace(Head(s)) THEN LStrip(Tail(s)) ELSE s

RECURSIVE RStrip(_)
RStrip(s) ==
    IF s # <<>> /\ IsSpace(s[Len(s)]) THEN RStrip(SubSeq(s, 1, Len(s) - 1)) ELSE s

Strip(s) == RStrip(LStrip(s))

\* str.split() with no argument: the maximal runs of non-whitespace.
RECURSIVE SplitFrom(_, _, _)
SplitFrom(s, cur, acc) ==
    IF s = <<>>
    THEN IF cur = <<>> THEN acc ELSE Append(acc, cur)
    ELSE IF IsSpace(Head(s))
         THEN SplitFrom(Tail(s), <<>>, IF cur = <<>> THEN acc ELSE Append(acc, cur))
         ELSE SplitFrom(Tail(s), Append(cur, Head(s)), acc)

Split(s) == SplitFrom(s, <<>>, <<>>)

\* " ".join(parts)
RECURSIVE JoinSp(_)
JoinSp(parts) ==
    IF parts = <<>> THEN <<>>
    ELSE IF Len(parts) = 1 THEN parts[1]
    ELSE parts[1] \o <<" ">> \o JoinSp(Tail(parts))

StartsWith(s, p) == Len(s) >= Len(p) /\ SubSeq(s, 1, Len(p)) = p

\* unicodedata.normalize("NFKD", s)
RECURSIVE NFKD(_)
NFKD(s) ==
    IF s = <<>> THEN <<>>
    ELSE (IF Head(s) = "E_ACUTE" THEN <<"e", "COMB_ACUTE">> ELSE <<Head(s)>>)
         \o NFKD(Tail(s))

\* The character loop of norm_text: alphanumerics are kept, every run of
\* other characters becomes one space.
RECURSIVE NormLoop(_, _, _)
NormLoop(s, out, prev_space) ==
    IF s = <<>> THEN out
    ELSE IF IsAlnum(Head(s))
         THEN NormLoop(Tail(s), Append(out, Head(s)), FALSE)
         ELSE NormLoop(Tail(s),
                       IF prev_space THEN out ELSE Append(out, " "),
                       TRUE)

norm_text(s) ==
    IF s = <<>> THEN <<>>
    ELSE JoinSp(Split(NormLoop(Lower(NFKD(s)), <<>>, FALSE)))

token_set(s) == {t \in Range(Split(norm_text(s))) : Len(t) >= 2}

\* A faulty score: the share of the first set that the second one covers.
jaccard_over_first(a, b) ==
    IF a = {} THEN <<0, 1>> ELSE <<Cardinality(a \cap b), Cardinality(a)>>

\* jaccard as the fraction <<numerator, denominator>>
jaccard(a, b) ==
    IF a = {} /\ b = {} THEN <<1, 1>>
    ELSE IF a = {} \/ b = {} THEN <<0, 1>>
    ELSE <<Cardinality(a \cap b), Cardinality(a \cup b)>>

\* x > y and x >= y on fractions with positive denominators
FracGt(x, y) == x[1] * y[2] > y[1] * x[2]

\* str(n) for n >= 0, and int(s) for a string of digits
RECURSIVE IntToStr(_)
IntToStr(n) ==
    IF n < 10 THEN <<DigitChars[n + 1]>>
    ELSE Append(IntToStr(n \div 10), DigitChars[(n % 10) + 1])

DigitValOf == [c \in DigitSet |->
                 (CHOOSE i \in DOMAIN DigitChars : DigitChars[i] = c) - 1]

DigitVal(c) == DigitValOf[c]

RECURSIVE StrToInt(_)
StrToInt(s) ==
    IF s = <<>> THEN 0
    ELSE 10 * StrToInt(SubSeq(s, 1, Len(s) - 1)) + DigitVal(s[Len(s)])

AllDigits(s) == s # <<>> /\ \A i \in DOMAIN s : IsDigit(s[i])

-----------------------------------------------------------------------------
(* Python values *)

None     == [k |-> "none", n |-> 0, s |-> <<>>]
Str(x)   == [k |-> "str",  n |-> 0, s |-> x]
Num(i)   == [k |-> "int",  n |-> i, s |-> <<>>]
Lst(l)   == [k |-> "list", n |-> 0, s |-> l]
Dict(x)  == [k |-> "dict", n |-> 0, s |-> x]

IsNone(v) == v.k = "none"
IsStr(v)  == v.k = "str"
IsInt(v)  == v.k = "int"
IsList(v) == v.k = "list"

\* bool(v)
Truthy(v) ==
    CASE v.k = "none" -> FALSE
      [] v.k = "int"  -> v.n # 0
      [] OTHER        -> v.s # <<>>

\* str(v) of None, an int or a string
PyStr(v) ==
    CASE v.k = "none" -> <<"N","o","n","e">>
      [] v.k = "int"  -> IntToStr(v.n)
      [] OTHER        -> v.s

\* An entry of an authors list: a plain name (d = FALSE, the name in
\* display) or an author object (d = TRUE).
AuthorStr(name) == [d |-> FALSE, display |-> name, family |-> <<>>, given |-> <<>>]
AuthorObj(given, family, display) ==
    [d |-> TRUE, display |-> display, family |-> family, given |-> given]

AuthorStrs(names) == [i \in DOMAIN names |-> AuthorStr(names[i])]

MdKeys == {"title", "year", "year_norm", "authors", "doi", "journal", "abstract",
           "volume", "issue", "pages", "issn", "url", "published", "journal_full"}

\* md.get(key) of an empty metadata dict
EmptyMd == [key \in MdKeys |-> None]

\* The first 4-digit substring that starts with 19 or 20.
RECURSIVE FirstYearFrom(_, _)
FirstYearFrom(s, i) ==
    IF i + 3 > Len(s) THEN None
    ELSE LET sub == SubSeq(s, i, i + 3)
         IN IF AllDigits(sub) /\ (StartsWith(sub, <<"1","9">>) \/ StartsWith(sub, <<"2","0">>))
            THEN Num(StrToInt(sub))
            ELSE FirstYearFrom(s, i + 1)

parse_year_int(y) == FirstYearFrom(PyStr(y), 1)

\* None when the list is missing, empty or its first entry has no name
first_author_last_from_json(md_authors) ==
    IF ~IsList(md_authors) \/ md_authors.s = <<>> THEN None
    ELSE LET first == md_authors.s[1]
         IN IF first.d
            THEN IF Strip(first.family) # <<>> THEN Str(Lower(Strip(first.family)))
                 ELSE IF Strip(first.display) # <<>> THEN Str(Lower(Strip(first.display)))
                 ELSE None
            ELSE LET parts == Split(first.display)
                 IN IF parts # <<>> THEN Str(Lower(parts[Len(parts)])) ELSE None

-----------------------------------------------------------------------------
(* Provenance patches *)

\* A patch's confidence is a fraction <<numerator, denominator>>; a match
\* confidence, which the code rounds to 4 places, is in ten-thousandths.
ConfDefault == <<9, 10>>
ConfManual  == <<99, 100>>
ConfOne     == 10000
ConfAuthorYear == 9000

Patch(path, old, new, source, confidence) ==
    [path |-> path, op |-> "set", from |-> old, to |-> new,
     source |-> source, note |-> "", confidence |-> confidence]

\* A faulty add_patch: the new patch is put at the head of the list.
add_patch_front(patches, path, old, new, source, confidence) ==
    <<Patch(path, old, new, source, confidence)>> \o patches

add_patch(patches, path, old, new, source, confidence) ==
    Append(patches, Patch(path, old, new, source, confidence))

log_manual_patch(patches, path, old, new, note) ==
    Append(patches,
           [path |-> path, op |-> "manual_replace", from |-> old, to |-> new,
            source |-> "manual_patch", note |-> note, confidence |-> ConfManual])

-----------------------------------------------------------------------------
(* Zotero candidate records and the indices over them *)

NoExtras == [abstract |-> None, volume |-> None, issue |-> None,
             pages |-> None, issn |-> None, url |-> None]

\* One CSLItem as load_csl_json builds it: the title normalised, the DOI
\* lower-cased; id, doi, container_title and year are values, authors a
\* sequence of name strings.
CSLItem(id, title, doi, container_title, year, authors, x) ==
    [id |-> id, title |-> title, title_norm |-> norm_text(title),
     doi |-> IF IsStr(doi) THEN Str(Lower(doi.s)) ELSE None,
     container_title |-> container_title, abstract |-> x.abstract,
     volume |-> x.volume, issue |-> x.issue, pages |-> x.pages,
     issn |-> x.issn, url |-> x.url, year |-> year, authors |-> authors]

CSVInfo(out_key, key, pdf_basenames, title_norm) ==
    [out_key |-> out_key, key |-> key, pdf_basenames |-> pdf_basenames,
     title_norm |-> title_norm]

Max(S) == CHOOSE x \in S : \A y \in S : y <= x
Min(S) == CHOOSE x \in S : \A y \in S : x <= y

\* build_indices: every lookup answers with the position of the item in
\* csl_items, 0 when the key is absent.
\* by_doi[key]: a later item with the same DOI replaces an earlier one.
by_doi(items, key) ==
    LET S == {i \in DOMAIN items :
                Truthy(items[i].doi) /\ Lower(items[i].doi.s) = key}
    IN IF S = {} THEN 0 ELSE Max(S)

\* by_title[key][0]: buckets keep input order.
by_title(items, key) ==
    LET S == {i \in DOMAIN items : items[i].title_norm = key}
    IN IF S = {} THEN 0 ELSE Min(S)

AuthYearKey(first_last, year) == first_last \o <<"|">> \o IntToStr(year)

\* by_auth_year[key][0]
by_auth_year(items, key) ==
    LET S == {i \in DOMAIN items :
                /\ items[i].authors # <<>>
                /\ Truthy(items[i].year)
                /\ LET parts == Split(items[i].authors[1])
                   IN AuthYearKey(Lower(parts[Len(parts)]), items[i].year.n) = key}
    IN IF S = {} THEN 0 ELSE Min(S)

\* by_id = {it.id: it for it in csl_items if it.id}
by_id(items, key) ==
    LET S == {i \in DOMAIN items : Truthy(items[i].id) /\ items[i].id.s = key}
    IN IF S = {} THEN 0 ELSE Max(S)

\* The CSV row main() attaches to a match: by Zotero key, else the first
\* row with the same normalised title; 0 when there is none.
csvinfo_for(csvmap, item) ==
    LET byKey == {j \in DOMAIN csvmap :
                    Truthy(item.id) /\ csvmap[j].out_key = item.id.s}
        byTitle == {j \in DOMAIN csvmap :
                      /\ Truthy(csvmap[j].title_norm)
                      /\ csvmap[j].title_norm.s = item.title_norm}
    IN IF byKey # {} THEN Min(byKey)
       ELSE IF byTitle # {} THEN Min(byTitle)
       ELSE 0

-----------------------------------------------------------------------------
(* Field merge *)

AbstractMinLen == 500

MdPath(key) == <<"metadata", key>>

\* set_field of merge_fields, on st = [md, patches, changed]
set_field(st, key, new_val, source) ==
    LET old_val == st.md[key]
    IN IF old_val # new_val /\ ~IsNone(new_val)
       THEN [md |-> [st.md EXCEPT ![key] = new_val],
             patches |-> add_patch(st.patches, MdPath(key), old_val, new_val,
                                   source, ConfDefault),
             changed |-> Append(st.changed, key)]
       ELSE st

\* A faulty guard: the candidate's value is written over any value.
FillAlways(st, key, val, source) ==
    IF Truthy(val) THEN set_field(st, key, val, source) ELSE st

\* "if csl.<f> and not md.get(<key>)"
FillBlank(st, key, val, source) ==
    IF Truthy(val) /\ ~Truthy(st.md[key]) THEN set_field(st, key, val, source) ELSE st

\* merge_fields(obj, csl, csvinfo, match_method, confidence); csvinfo is a
\* CSVInfo or None.  Answers the merged object and the changed-fields list.
merge_fields(obj, csl, csvinfo, match_method, confidence) ==
    LET s0 == [md |-> obj.md, patches |-> obj.patches, changed |-> <<>>]
        s1 == IF ~IsStr(s0.md["title"]) \/ Len(s0.md["title"].s) < Len(csl.title)
              THEN set_field(s0, "title", Str(csl.title), "zotero:title") ELSE s0
        s2 == IF Truthy(csl.year)
              THEN set_field(s1, "year_norm", Str(IntToStr(csl.year.n)), "zotero:year_norm")
              ELSE s1
        s3 == IF csl.authors # <<>>
              THEN set_field(s2, "authors", Lst(AuthorStrs(csl.authors)), "zotero:authors")
              ELSE s2
        s4 == FillBlank(s3, "doi", csl.doi, "zotero:doi")
        s5 == FillBlank(s4, "journal", csl.container_title, "zotero:journal")
        s6 == IF Truthy(csl.abstract)
                 /\ (~Truthy(s5.md["abstract"])
                     \/ Len(PyStr(s5.md["abstract"])) < AbstractMinLen)
              THEN set_field(s5, "abstract", Str(Strip(csl.abstract.s)), "zotero:abstract")
              ELSE s5
        s7 == FillBlank(s6, "volume", csl.volume, "zotero:volume")
        s8 == FillBlank(s7, "issue", csl.issue, "zotero:issue")
        s9 == FillBlank(s8, "pages", csl.pages, "zotero:pages")
        s10 == FillBlank(s9, "issn", csl.issn, "zotero:issn")
        s11 == FillBlank(s10, "url", csl.url, "zotero:url")
        hasPdf == ~IsNone(csvinfo) /\ csvinfo.s.pdf_basenames # <<>>
        newPdf == hasPdf /\ obj.orig_pdf_filename # Str(csvinfo.s.pdf_basenames[1])
        zez == [key |-> IF ~IsNone(csvinfo) /\ Truthy(csvinfo.s.key)
                        THEN csvinfo.s.key ELSE obj.zotero.key,
                id |-> IF Truthy(csl.id) /\ ~Truthy(obj.zotero.id)
                       THEN csl.id ELSE obj.zotero.id,
                source |-> "zotero_csl+csv",
                match_method |-> match_method,
                match_confidence |-> confidence]
    IN [obj |-> [obj EXCEPT
                   !.md = s11.md,
                   !.patches =
                       IF newPdf
                       THEN add_patch(s11.patches, <<"provenance", "orig_pdf_filename">>,
                                      obj.orig_pdf_filename,
                                      Str(csvinfo.s.pdf_basenames[1]),
                                      "zotero:csv", ConfDefault)
                       ELSE s11.patches,
                   !.orig_pdf_filename =
                       IF newPdf THEN Str(csvinfo.s.pdf_basenames[1]) ELSE @,
                   !.zotero = zez],
        changed |-> s11.changed]

-----------------------------------------------------------------------------
(* The per-file body of main(): overrides, matching cascade, merge, write *)

NoEntry == [kind |-> "none", str |-> <<>>, d |-> <<>>]
StrEntry(x) == [kind |-> "str", str |-> x, d |-> <<>>]
DictEntry(d) == [kind |-> "dict", str |-> <<>>, d |-> d]

Has(d, key) == key \in DOMAIN d

\* round(x, 4) of a fraction, in ten-thousandths
Round4(x) == (2 * ConfOne * x[1] + x[2]) \div (2 * x[2])

\* Lines 336-341.  crash: the statement raises (a title or doi that is
\* neither blank nor a string).
Locals(md) ==
    LET title == IF Truthy(md["title"]) THEN md["title"] ELSE Str(<<>>)
        doi   == IF Truthy(md["doi"]) THEN md["doi"] ELSE Str(<<>>)
        crash == ~IsStr(title) \/ ~IsStr(doi)
        dj    == IF IsStr(doi) THEN Strip(Lower(doi.s)) ELSE <<>>
    IN [crash |-> crash,
        title |-> IF IsStr(title) THEN title.s ELSE <<>>,
        tnorm |-> IF IsStr(title) THEN norm_text(title.s) ELSE <<>>,
        doi_json |-> IF dj = <<>> THEN None ELSE Str(dj),
        year_json |-> parse_year_int(md["year"]),
        first_last |-> first_author_last_from_json(md["authors"])]

NoMatch == [match |-> 0, method |-> "", conf |-> None, counter |-> ""]

\* Step 0, lines 348-386: the candidate an entry of by_filename points at.
override_match(items, ov_entry) ==
    IF ov_entry.kind = "dict"
    THEN LET kdoi == IF Has(ov_entry.d, "doi") THEN ov_entry.d["doi"] ELSE None
             kid  == IF Has(ov_entry.d, "key") THEN ov_entry.d["key"] ELSE None
         IN IF IsStr(kdoi) /\ by_doi(items, Lower(kdoi.s)) # 0
            THEN [match |-> by_doi(items, Lower(kdoi.s)), method |-> "override:doi",
                  conf |-> Num(ConfOne), counter |-> ""]
            ELSE IF IsStr(kid) /\ by_id(items, kid.s) # 0
            THEN [match |-> by_id(items, kid.s), method |-> "override:id",
                  conf |-> Num(ConfOne), counter |-> ""]
            ELSE NoMatch
    ELSE IF ov_entry.kind = "str"
    THEN LET k == ov_entry.str
         IN IF StartsWith(Lower(k), <<"1","0",".">>) /\ by_doi(items, Lower(k)) # 0
            THEN [match |-> by_doi(items, Lower(k)), method |-> "override:doi",
                  conf |-> Num(ConfOne), counter |-> ""]
            ELSE IF by_id(items, k) # 0
            THEN [match |-> by_id(items, k), method |-> "override:id",
                  conf |-> Num(ConfOne), counter |-> ""]
            ELSE NoMatch
    ELSE NoMatch

\* A faulty loop: a candidate of equal score replaces the best one.
RECURSIVE fuzzy_best_last(_, _, _, _)
fuzzy_best_last(items, a, i, best) ==
    IF i > Len(items) THEN best
    ELSE LET sc == jaccard(a, token_set(items[i].title))
         IN fuzzy_best_last(items, a, i + 1,
                            IF ~FracGt(best[2], sc) /\ sc[1] > 0 THEN <<i, sc>> ELSE best)

\* The fuzzy loop of lines 431-438: best = (candidate, score), replaced only
\* by a strictly greater score.
RECURSIVE fuzzy_best(_, _, _, _)
fuzzy_best(items, a, i, best) ==
    IF i > Len(items) THEN best
    ELSE LET sc == jaccard(a, token_set(items[i].title))
         IN fuzzy_best(items, a, i + 1,
                       IF FracGt(sc, best[2]) THEN <<i, sc>> ELSE best)

\* A faulty cascade: the exact title is tried before the DOI.
cascade_title_first(items, loc, m0, minf) ==
    IF loc.tnorm # <<>> /\ by_title(items, loc.tnorm) # 0
    THEN [match |-> by_title(items, loc.tnorm), method |-> "title_exact",
          conf |-> Num(ConfOne), counter |-> "matched_title_exact"]
    ELSE IF Truthy(loc.doi_json) /\ by_doi(items, loc.doi_json.s) # 0
    THEN [match |-> by_doi(items, loc.doi_json.s), method |-> "doi",
          conf |-> Num(ConfOne), counter |-> "matched_doi"]
    ELSE m0

\* Steps 1-3, lines 417-443, entered with the override step's result m0.
cascade_title_doi(items, loc, m0, minf) ==
    IF Truthy(loc.doi_json) /\ by_doi(items, loc.doi_json.s) # 0
    THEN [match |-> by_doi(items, loc.doi_json.s), method |-> "doi",
          conf |-> Num(ConfOne), counter |-> "matched_doi"]
    ELSE IF loc.tnorm # <<>> /\ by_title(items, loc.tnorm) # 0
    THEN [match |-> by_title(items, loc.tnorm), method |-> "title_exact",
          conf |-> Num(ConfOne), counter |-> "matched_title_exact"]
    ELSE LET best == IF loc.tnorm # <<>>
                     THEN fuzzy_best(items, token_set(loc.title), 1, <<0, <<0, 1>>>>)
                     ELSE <<0, <<0, 1>>>>
         IN IF loc.tnorm # <<>> /\ best[1] # 0
               /\ best[2][1] * ConfOne >= minf * best[2][2]
            THEN [match |-> best[1], method |-> "title_fuzzy",
                  conf |-> Num(Round4(best[2])), counter |-> "matched_title_fuzzy"]
            ELSE m0

\* Step 4, lines 446-453.
cascade_author_year(items, loc, m1) ==
    IF m1.match = 0 /\ Truthy(loc.first_last) /\ ~IsNone(loc.year_json)
    THEN LET hit == by_auth_year(items, AuthYearKey(loc.first_last.s, loc.year_json.n))
         IN IF hit # 0
            THEN [match |-> hit, method |-> "author_year",
                  conf |-> Num(ConfAuthorYear), counter |-> "matched_author_year"]
            ELSE m1
    ELSE m1

match_cascade(items, loc, ov_entry, minf) ==
    LET m0 == override_match(items, ov_entry)
        m1 == cascade_title_doi(items, loc, m0, minf)
    IN cascade_author_year(items, loc, m1)

-----------------------------------------------------------------------------
(* Manual field overrides *)

\* manual_set_fn / manual_set on st = [md, patches, changed, called]
manual_set(st, key, v, note) ==
    LET old == st.md[key]
    IN IF ~IsNone(v) /\ old # v
       THEN [md |-> [st.md EXCEPT ![key] = v],
             patches |-> log_manual_patch(st.patches, MdPath(key), old, v, note),
             changed |-> Append(st.changed, key),
             called |-> TRUE]
       ELSE [st EXCEPT !.called = TRUE]

\* int(str(val)[:4]) under try/except: None when it raises
year_prefix(val) ==
    LET s4 == SubSeq(PyStr(val), 1, IF Len(PyStr(val)) < 4 THEN Len(PyStr(val)) ELSE 4)
    IN IF AllDigits(s4) THEN Num(StrToInt(s4)) ELSE None

\* One turn of the loop of lines 399-415 over the by_filename entry d.
fn_override_step(st, d, key) ==
    IF ~Has(d, key) THEN st
    ELSE IF key = "year" /\ (IsInt(d[key]) \/ IsStr(d[key]))
    THEN LET yi == year_prefix(d[key])
         IN IF IsNone(yi) THEN st
            ELSE LET sy == manual_set(st, "year", yi, "override:by_filename")
                 IN manual_set(sy, "year_norm", Str(IntToStr(yi.n)),
                               "override:by_filename")
    ELSE manual_set(st, key, d[key], "override:by_filename")

FnOverrideKeys == <<"year", "journal", "volume", "issue", "pages", "authors", "doi">>

RECURSIVE fn_override_loop(_, _, _)
fn_override_loop(st, d, i) ==
    IF i > Len(FnOverrideKeys) THEN st
    ELSE fn_override_loop(fn_override_step(st, d, FnOverrideKeys[i]), d, i + 1)

\* Lines 389-415: the by_filename field overrides, applied before the cascade.
apply_fn_overrides(obj, ov_entry) ==
    IF ov_entry.kind = "dict"
    THEN fn_override_loop([md |-> obj.md, patches |-> obj.patches,
                           changed |-> <<>>, called |-> FALSE], ov_entry.d, 1)
    ELSE [md |-> obj.md, patches |-> obj.patches, changed |-> <<>>, called |-> FALSE]

\* int(y) of lines 473-474: raises unless y is an int or a string of digits
IntRaises(y) == ~(IsInt(y) \/ (IsStr(y) /\ AllDigits(Strip(y.s))))
PyIntOf(y) == IF IsInt(y) THEN y ELSE Num(StrToInt(Strip(y.s)))

\* Lines 458-481: the by_title field overrides of an unmatched document.
\* st.raised: int(y) raised.
apply_title_overrides(obj, f) ==
    LET s0 == [md |-> obj.md, patches |-> obj.patches, changed |-> <<>>,
               called |-> FALSE]
        s1 == IF Has(f, "journal")
              THEN manual_set(s0, "journal", f["journal"], "override:by_title") ELSE s0
        raised == Has(f, "year") /\ IntRaises(f["year"])
        sy == manual_set(s1, "year", PyIntOf(f["year"]), "override:by_title")
        s2 == IF Has(f, "year") /\ ~raised
              THEN manual_set(sy, "year_norm", Str(PyStr(f["year"])), "override:by_title")
              ELSE s1
        s3 == IF Has(f, "volume")
              THEN manual_set(s2, "volume", Str(PyStr(f["volume"])), "override:by_title")
              ELSE s2
        s4 == IF Has(f, "pages")
              THEN manual_set(s3, "pages", f["pages"], "override:by_title") ELSE s3
        s5 == IF Has(f, "authors") /\ IsList(f["authors"])
              THEN manual_set(s4, "authors", f["authors"], "override:by_title") ELSE s4
    IN [md |-> s5.md, patches |-> s5.patches, changed |-> s5.changed,
        called |-> IF raised THEN s1.called ELSE s5.called, raised |-> raised]

Get(f, key) == IF key \in DOMAIN f THEN f[key] ELSE NoEntry

\* Lines 376-381: by_title.get(tnorm), else by_title.get(title.strip().lower())
title_fields(ovt, loc) ==
    IF loc.tnorm = <<>> THEN NoEntry
    ELSE IF Get(ovt.by_title, loc.tnorm).kind # "none" THEN Get(ovt.by_title, loc.tnorm)
    ELSE Get(ovt.by_title, Lower(Strip(loc.title)))

-----------------------------------------------------------------------------
(* One turn of the file loop of main(), lines 324-545 *)

\* merge_in: the document handed to merge_fields, when it was called.
Outcome(status, obj, m, changed, changed_from_fn, conflict, written, counters) ==
    [status |-> status, obj |-> obj, match |-> m.match, method |-> m.method,
     conf |-> m.conf, changed |-> changed, changed_from_fn |-> changed_from_fn,
     conflict |-> conflict, written |-> written, counters |-> counters,
     merge_in |-> [shape |-> "none"]]

\* The unmatched branch, lines 455-509.  obj1 carries the by_filename changes.
unmatched_outcome(obj1, fields, m, fnch, ovt, a) ==
    IF ovt.on /\ fields.kind = "dict" /\ DOMAIN fields.d # {}
    THEN LET t == apply_title_overrides(obj1, fields.d)
         IN IF t.raised \/ (t.called /\ obj1.shape = "md_null")
            THEN Outcome("crash", obj1, m, <<>>, fnch, FALSE, FALSE, {"total", "unmatched"})
            ELSE Outcome(IF t.changed # <<>> THEN "manual_override" ELSE "unmatched",
                         [obj1 EXCEPT !.md = t.md, !.patches = t.patches],
                         [m EXCEPT !.method =
                              IF t.changed # <<>> THEN "override:by_title" ELSE ""],
                         t.changed, fnch, FALSE,
                         t.changed # <<>> /\ ~a.dry_run,
                         {"total", "unmatched"})
    ELSE Outcome("unmatched", obj1, m, <<>>, fnch, FALSE,
                 ~a.strict /\ ~a.dry_run, {"total", "unmatched"})

\* Lines 512-515: "if doi_json and match.doi and doi_json != match.doi"
doi_conflict_of(loc, item) ==
    Truthy(loc.doi_json) /\ Truthy(item.doi) /\ loc.doi_json # item.doi

\* A faulty write test: strict mode does not hold a conflicting document back.
write_matched_always(a, doi_conflict) == ~a.dry_run

\* Line 530: the test that guards the write of a merged document.
write_matched(a, doi_conflict) ==
    ~a.dry_run /\ (~a.strict \/ (a.strict /\ ~doi_conflict))

\* The matched branch, lines 511-545.
matched_outcome(obj1, loc, m, fnch, L, a) ==
    LET item == L.items[m.match]
        doi_conflict == doi_conflict_of(loc, item)
        j == csvinfo_for(L.csvmap, item)
        csvinfo == IF j = 0 THEN None ELSE Dict(L.csvmap[j])
        mg == merge_fields(obj1, item, csvinfo, m.method, m.conf)
        cnt == {"total"} \cup (IF m.counter = "" THEN {} ELSE {m.counter})
                         \cup (IF doi_conflict THEN {"doi_conflicts"} ELSE {})
    IN IF obj1.shape = "md_null"
       THEN Outcome("crash", obj1, m, <<>>, fnch, doi_conflict, FALSE, cnt)
       ELSE [Outcome(IF mg.changed # <<>> THEN "changed" ELSE "unchanged",
                     mg.obj, m, mg.changed, fnch, doi_conflict,
                     write_matched(a, doi_conflict), cnt)
             EXCEPT !.merge_in = obj1]

\* name: the file's name (its position in the sorted listing); file: what
\* the file holds; L: the library; ovt: the overrides table; a: the
\* command-line arguments.
reconcile_file(name, file, L, ovt, a) ==
    IF file.shape = "bad_json"
    THEN Outcome("error", file, NoMatch, <<>>, <<>>, FALSE, FALSE, {"total", "errors"})
    ELSE IF file.shape \in {"top_list", "md_str"} \/ Locals(file.md).crash
    THEN Outcome("crash", file, NoMatch, <<>>, <<>>, FALSE, FALSE, {"total"})
    ELSE
    LET loc == Locals(file.md)
        ov_entry == IF ovt.on THEN Get(ovt.by_filename, name) ELSE NoEntry
        fields == IF ovt.on THEN title_fields(ovt, loc) ELSE NoEntry
        fn == apply_fn_overrides(file, ov_entry)
        obj1 == [file EXCEPT !.md = fn.md, !.patches = fn.patches]
        m == match_cascade(L.items, loc, ov_entry, a.min_fuzzy)
    IN IF fn.called /\ file.shape = "md_null"
       THEN Outcome("crash", file, NoMatch, <<>>, <<>>, FALSE, FALSE, {"total"})
       ELSE IF m.match = 0
       THEN unmatched_outcome(obj1, fields, m, fn.changed, ovt, a)
       ELSE matched_outcome(obj1, loc, m, fn.changed, L, a)

-----------------------------------------------------------------------------
(* The strings of the inputs *)

TitleAbCd     == <<"A","b"," ","c","d">>
TitleAbCdLong == <<"A","b"," ","-"," ","c","d","!">>
TitleAbCdEf   == <<"a","b"," ","c","d"," ","e","f">>
TitleCdEf     == <<"c","d"," ","e","f">>
TitleQqRs     == <<"Q","q"," ","r","s">>
TitleZzYy     == <<"Z","z"," ","y","y">>
TitleCdEfGh   == <<"c","d"," ","e","f"," ","g","h">>
TitleAB       == <<"A"," ","b">>
TitleXY       == <<"x"," ","y">>
KeyAbCd       == <<"a","b"," ","c","d">>
KeyZzYy       == <<"z","z"," ","y","y">>
DoiA          == <<"1","0",".","1","/","a">>
DoiAUpper     == <<"1","0",".","1","/","A">>
DoiARaw       == <<"1","0",".","1","/","A"," ">>
DoiB          == <<"1","0",".","2","/","b">>
DoiBUpper     == <<"1","0",".","2","/","B">>
DoiZ          == <<"1","0",".","9","/","z">>
DoiResolver   == <<"h","t","t","p","s",":","/","/","d","o","i",".","o","r","g","/">>
IdK1          == <<"K","1">>
IdK2          == <<"K","2">>
IdK3          == <<"K","3">>
IdK4          == <<"K","4">>
IdK5          == <<"K","5">>
IdK6          == <<"K","6">>
NameRoe       == <<"J"," ","R","o","e">>
NamePoe       == <<"K"," ","P","o","e">>
NameMoe       == <<"L"," ","M","o","e">>
JournalJn     == <<"J","n">>
JournalJm     == <<"J","m">>
JournalJo     == <<"J","o">>
JournalJx     == <<"J","x">>
AbstractRaw   == <<" ","A","b"," ">>
PdfA          == <<"a",".","p","d","f">>
PdfB          == <<"b",".","p","d","f">>
Year2020      == <<"2","0","2","0">>
YearIso       == <<"2","0","1","5","-","0","3">>
YearBad       == <<"n","/","a">>
Vol7          == <<"7">>

(* The Zotero exports a run may be given *)

ItemK1 == CSLItem(Str(IdK1), TitleAbCd, Str(DoiAUpper), Str(JournalJn), Num(2015),
                  <<NameRoe>>, [NoExtras EXCEPT !.volume = Str(Vol7)])
ItemK2 == CSLItem(Str(IdK2), TitleAbCdEf, Str(DoiB), Str(JournalJm), Num(2016),
                  <<NamePoe>>, [NoExtras EXCEPT !.abstract = Str(AbstractRaw)])
\* shares its identifier and its normalised title with ItemK1
ItemK3 == CSLItem(Str(IdK3), TitleAbCdLong, Str(DoiA), None, Num(2016),
                  <<NamePoe>>, NoExtras)

\* a bare entry: a title, an identifier and a year
ItemK4 == CSLItem(Str(IdK4), TitleAbCd, Str(DoiA), None, Num(2015), <<>>, NoExtras)

Library1 == [items |-> <<ItemK1, ItemK2>>,
             csvmap |-> <<CSVInfo(IdK1, Str(IdK1), <<PdfA>>, Str(KeyAbCd))>>]
Library2 == [items |-> <<ItemK1, ItemK3>>,
             csvmap |-> <<CSVInfo(KeyAbCd, None, <<PdfB>>, Str(KeyAbCd))>>]

Library3 == [items |-> <<ItemK4>>, csvmap |-> <<>>]

\* two entries whose titles are equally close to "cd ef", and one whose
\* title has no word of two letters
ItemK5 == CSLItem(Str(IdK5), TitleCdEfGh, None, Str(JournalJm), Num(2016), <<>>, NoExtras)
ItemK6 == CSLItem(Str(IdK6), TitleAB, None, Str(JournalJn), Num(2016), <<>>, NoExtras)

Library4 == [items |-> <<ItemK5, ItemK2, ItemK6>>, csvmap |-> <<>>]

Library(l) == IF l = 1 THEN Library1 ELSE IF l = 2 THEN Library2
              ELSE IF l = 3 THEN Library3 ELSE Library4

Libraries == {1, 2, 3, 4}

(* The --overrides tables a run may be given; 0: the option is absent *)

OvTable(t) ==
    CASE t = 1 ->
           [on |-> TRUE,
            by_filename |-> (1 :> StrEntry(IdK2)),
            by_title |-> (KeyZzYy :> DictEntry(("journal" :> Str(JournalJo))
                                               @@ ("year" :> Num(2021))))]
      [] t = 2 ->
           [on |-> TRUE,
            by_filename |-> (1 :> DictEntry(("key" :> Str(IdK2))
                                            @@ ("year" :> Str(Year2020))
                                            @@ ("authors" :> Lst(AuthorStrs(<<NameMoe>>)))
                                            @@ ("journal" :> Str(JournalJo)))),
            by_title |-> (KeyAbCd :> DictEntry(("journal" :> Str(JournalJo))))]
      [] t = 3 ->
           [on |-> TRUE,
            by_filename |-> (1 :> DictEntry(("doi" :> Str(DoiBUpper)))),
            by_title |-> (KeyZzYy :> DictEntry(("year" :> Str(YearBad))))
                         @@ (TitleXY :> DictEntry(("journal" :> Str(JournalJx))))]
      [] OTHER -> [on |-> FALSE, by_filename |-> <<>>, by_title |-> <<>>]

OvTables == 0 .. 3

(* The input files *)

NoZotero == [key |-> None, id |-> None, source |-> "", match_method |-> "",
             match_confidence |-> None]

\* What the hardening pass reads besides the metadata: the title and the
\* year the file name gives, and what the document structure gives (the
\* names of the author title line, the first DOI of the front matter, the
\* text of the abstract section).
NoAux == [stem_title |-> <<"F">>, stem_year |-> None, sec_authors |-> <<>>,
          front_doi |-> None, struct_abstract |-> None]

File(shape, md) ==
    [shape |-> shape, md |-> md, patches |-> <<>>, orig_pdf_filename |-> None,
     zotero |-> NoZotero, aux |-> NoAux]

Md(title, doi, year, authors, journal) ==
    [EmptyMd EXCEPT !["title"] = title, !["doi"] = doi, !["year"] = year,
                    !["authors"] = authors, !["journal"] = journal]

DocScenarioA  == File("ok", Md(Str(TitleAbCd), Str(<<>>), None, None, None))
DocDoiRaw     == File("ok", Md(Str(TitleQqRs), Str(DoiARaw), None, None, None))
DocDoiTitle   == File("ok", Md(Str(TitleAbCdEf), Str(DoiA), None, None, None))
DocConflict   == File("ok", Md(Str(TitleAbCd), Str(DoiZ), None, None, Str(JournalJx)))
DocUnmatched  == File("ok", Md(Str(TitleZzYy), None, None, None, None))
DocAuthorYear == File("ok", Md(Str(TitleQqRs), None, Num(2015),
                               Lst(AuthorStrs(<<NameRoe>>)), None))
DocFuzzy      == File("ok", Md(Str(TitleCdEf), None, Str(YearIso), None, None))
DocBadJson    == File("bad_json", EmptyMd)
DocTopList    == File("top_list", EmptyMd)
DocMdStr      == File("md_str", EmptyMd)
DocMdNull     == File("md_null", EmptyMd)
DocDoiInt     == File("ok", Md(Str(TitleAbCd), Num(5), None, None, None))
DocDoiUrl     == File("ok", Md(Str(TitleQqRs), Str(DoiResolver \o DoiA), None, None, None))
DocTokenless  == File("ok", Md(Str(TitleXY), None, None, None, Str(JournalJx)))

FileInputs == {DocScenarioA, DocDoiRaw, DocDoiTitle, DocConflict, DocUnmatched,
               DocAuthorYear, DocFuzzy, DocBadJson, DocTopList, DocMdStr,
               DocMdNull, DocDoiInt, DocDoiUrl, DocTokenless}

-----------------------------------------------------------------------------
(* The reconciliation run: main() of apply_zotero_metadata.py *)

MaxFiles == 2
MinFuzzyDefault == 8500
MinFuzzyLow == 5000
UnmatchedPctMax == 5
ExitUnmatched == 2
ExitConflicts == 3
ExitUncaught == 1

Counters == {"total", "matched_doi", "matched_title_exact", "matched_title_fuzzy",
             "matched_author_year", "unmatched", "doi_conflicts", "errors"}

NoFile == [present |-> FALSE]
NoLast == [name |-> 0]
NoDoc  == [shape |-> "none"]
NoStep == [pass |-> ""]
NoTool == [pc |-> "idle"]

\* the other tools are not running
ToolsIdle == /\ call = NoTool /\ dd = NoTool /\ ci = NoTool /\ rt = NoTool
             /\ en = NoTool /\ au = NoTool /\ hd = NoTool

Args == [strict |-> strict, dry_run |-> dry_run, min_fuzzy |-> min_fuzzy]

\* A faulty gate: a ratio of exactly UnmatchedPctMax percent fails too.
strict_gate_inclusive(sm, is_strict) ==
    IF is_strict /\ sm["total"] > 0
       /\ sm["unmatched"] * 100 >= UnmatchedPctMax * sm["total"]
    THEN ExitUnmatched
    ELSE IF is_strict /\ sm["doi_conflicts"] > 0
    THEN ExitConflicts
    ELSE 0

\* Lines 574-580, after the reports are written.  unmatched / total > 0.05
\* is compared on the integers: the quotient's distance from 0.05 is at
\* least 1 / (20 * total), far above a rounding error.
strict_gate(sm, is_strict) ==
    IF is_strict /\ sm["total"] > 0
       /\ sm["unmatched"] * 100 > UnmatchedPctMax * sm["total"]
    THEN ExitUnmatched
    ELSE IF is_strict /\ sm["doi_conflicts"] > 0
    THEN ExitConflicts
    ELSE 0

InitArgs ==
    /\ lib \in Libraries
    /\ overrides \in OvTables
    /\ strict \in BOOLEAN
    /\ dry_run \in BOOLEAN
    /\ min_fuzzy \in {MinFuzzyLow, MinFuzzyDefault}

Init ==
    /\ InitArgs
    /\ pc = "loop"
    /\ idx = 0
    /\ summary = [c \in Counters |-> 0]
    /\ report = <<>>
    /\ outdir = [i \in 1 .. MaxFiles |-> NoFile]
    /\ exit_code = -1
    /\ last = NoLast
    /\ doc = NoDoc
    /\ hist = <<>>
    /\ step = NoStep
    /\ ToolsIdle

\* One turn of "for p in files": the next file of the sorted listing holds
\* any of FileInputs.  An exception that main() does not catch ends the
\* process before any report is written.
ProcessFile ==
    /\ pc = "loop"
    /\ idx < MaxFiles
    /\ \E file \in FileInputs :
       \E o \in {reconcile_file(idx + 1, file, Library(lib), OvTable(overrides), Args)} :
         LET name == idx + 1
         IN /\ last' = [name |-> name, input |-> file, o |-> o]
            /\ idx' = name
            /\ summary' = [c \in Counters |->
                             IF c \in o.counters THEN summary[c] + 1 ELSE summary[c]]
            /\ IF o.status = "crash"
               THEN /\ pc' = "crashed"
                    /\ exit_code' = ExitUncaught
                    /\ UNCHANGED <<report, outdir>>
               ELSE /\ pc' = pc
                    /\ exit_code' = exit_code
                    /\ report' = Append(report, [file |-> name, status |-> o.status,
                                                 match_method |-> o.method,
                                                 doi_conflict |-> o.conflict])
                    /\ outdir' = IF o.written
                                 THEN [outdir EXCEPT ![name] =
                                         [present |-> TRUE, obj |-> o.obj]]
                                 ELSE outdir
    /\ UNCHANGED <<lib, overrides, strict, dry_run, min_fuzzy, doc, hist, step>>
    /\ UNCHANGED tools

\* The listing is exhausted: the reports are written and the strict gates
\* decide the exit status (lines 547-584).
Finish ==
    /\ pc = "loop"
    /\ pc' = "done"
    /\ exit_code' = strict_gate(summary, strict)
    /\ UNCHANGED <<lib, overrides, strict, dry_run, min_fuzzy, idx, summary,
                   report, outdir, last, doc, hist, step>>
    /\ UNCHANGED tools

Next == ProcessFile \/ Finish

Spec == Init /\ [][Next]_vars

(* The end of a long run.  The file loop is over: of the total files of a
   dry run over library 1 the first were unmatched, the next matched by DOI
   with a conflicting identifier, the rest matched by DOI. *)

MaxTotal == 100
MaxConflicts == 2

GateRow(i, unmatched, conflicts) ==
    [file |-> i,
     status |-> IF i <= unmatched THEN "unmatched" ELSE "changed",
     match_method |-> IF i <= unmatched THEN "" ELSE "doi",
     doi_conflict |-> i > unmatched /\ i <= unmatched + conflicts]

InitGate ==
    /\ lib = 1
    /\ overrides = 0
    /\ strict \in BOOLEAN
    /\ dry_run = TRUE
    /\ min_fuzzy = MinFuzzyDefault
    /\ pc = "loop"
    /\ \E total \in 0 .. MaxTotal, unmatched \in 0 .. MaxTotal,
          conflicts \in 0 .. MaxConflicts :
         /\ unmatched + conflicts <= total
         /\ idx = total
         /\ summary = [c \in Counters |->
                         CASE c = "total" -> total
                           [] c = "unmatched" -> unmatched
                           [] c = "doi_conflicts" -> conflicts
                           [] c = "matched_doi" -> total - unmatched
                           [] OTHER -> 0]
         /\ report = [i \in 1 .. total |-> GateRow(i, unmatched, conflicts)]
    /\ outdir = [i \in 1 .. MaxFiles |-> NoFile]
    /\ exit_code = -1
    /\ last = NoLast
    /\ doc = NoDoc
    /\ hist = <<>>
    /\ step = NoStep
    /\ ToolsIdle

NextGate == Finish

SpecGate == InitGate /\ [][NextGate]_vars

-----------------------------------------------------------------------------
(* Offline hardening: harden_one of harden_extracted.py *)

AbstractPatchMax == 2000

IsBlank(x) ==
    CASE x.k = "none" -> TRUE
      [] x.k = "str"  -> Strip(x.s) = <<>>
      [] x.k = "int"  -> FALSE
      [] OTHER        -> x.s = <<>>

\* normalize_year(meta): a non-blank string year that holds a year becomes
\* that int, and the raw string is kept under published.online.
normalize_year(md) ==
    LET raw == md["year"]
        y == IF IsStr(raw) THEN FirstYearFrom(raw.s, 1) ELSE None
    IN IF IsStr(raw) /\ Strip(raw.s) # <<>> /\ Truthy(y)
       THEN [changed |-> TRUE,
             md |-> [md EXCEPT !["year"] = y,
                               !["published"] =
                                   IF Truthy(md["published"]) THEN @ ELSE Dict(raw.s)]]
       ELSE [changed |-> FALSE, md |-> md]

\* _simple_split_person on a name without degrees
to_person(name) ==
    LET parts == Split(Strip(name))
    IN AuthorObj(IF Len(parts) >= 2 THEN JoinSp(SubSeq(parts, 1, Len(parts) - 1)) ELSE <<>>,
                 parts[Len(parts)], Strip(name))

\* extract_authors_from_metadata: the names of the entries, blank ones
\* dropped, first occurrence kept (compared lower-cased).
RECURSIVE dedup_names(_, _, _)
dedup_names(names, seen, out) ==
    IF names = <<>> THEN out
    ELSE IF Lower(Head(names)) \in seen \/ Head(names) = <<>>
         THEN dedup_names(Tail(names), seen, out)
         ELSE dedup_names(Tail(names), seen \cup {Lower(Head(names))},
                          Append(out, Head(names)))

extract_authors_from_metadata(authors) ==
    IF ~IsList(authors) THEN <<>>
    ELSE dedup_names([i \in DOMAIN authors.s |-> Strip(authors.s[i].display)], {}, <<>>)

to_author_objs(tokens) == [i \in DOMAIN tokens |-> to_person(tokens[i])]

\* fixes: the action names of the fix list; md, patches: the new document
harden_fix(h, field, action, old, new) ==
    [md |-> [h.md EXCEPT ![field] = new],
     patches |-> add_patch(h.patches, MdPath(field), old, new, action, ConfDefault),
     fixes |-> Append(h.fixes, action)]

harden_title(h, aux) ==
    IF IsBlank(h.md["title"])
    THEN harden_fix(h, "title", "fallback:filename", None, Str(aux.stem_title))
    ELSE h

\* Lines 215-238.  The patch of the normalisation is logged after
\* normalize_year has already rewritten year and published.
harden_year(h, aux) ==
    LET year == h.md["year"]
        nr == normalize_year(h.md)
        h1 == IF nr.changed
              THEN [md |-> nr.md,
                    patches |-> add_patch(h.patches, MdPath("year"), year, nr.md["year"],
                                          "normalize:iso", ConfDefault),
                    fixes |-> Append(h.fixes, "normalize:iso")]
              ELSE h
    IN IF ~IsBlank(h1.md["year"]) THEN h1
       ELSE IF Truthy(aux.stem_year)
       THEN harden_fix(h1, "year", "fallback:filename", h1.md["year"],
                       Num(StrToInt(aux.stem_year.s)))
       ELSE IF ~IsNone(h1.md["year_norm"]) /\ ~IsNone(year_prefix(h1.md["year_norm"]))
       THEN harden_fix(h1, "year", "from_year_norm", h1.md["year"],
                       year_prefix(h1.md["year_norm"]))
       ELSE h1

\* Lines 265-283.
harden_authors(h, aux) ==
    LET tokens == extract_authors_from_metadata(h.md["authors"])
        objs == to_author_objs(tokens)
    IN IF objs # <<>>
       THEN harden_fix(h, "authors", "filtered_ack_like", h.md["authors"], Lst(objs))
       ELSE IF aux.sec_authors # <<>>
       THEN harden_fix(h, "authors", "from_sections", h.md["authors"],
                       Lst(to_author_objs(aux.sec_authors)))
       ELSE h

\* DOI_RE.search: 10. , 4 to 9 digits, a slash, then one or more of
\* [-._;()/:A-Z0-9] (case-insensitive); <<>> when nothing matches.
DoiClass == (AlnumSet \ {"E_ACUTE"}) \cup {"-", ".", "_", ";", "(", ")", "/", ":"}

RECURSIVE RunLen(_, _, _)
RunLen(s, i, S) == IF i <= Len(s) /\ s[i] \in S THEN 1 + RunLen(s, i + 1, S) ELSE 0

RECURSIVE doi_re_search(_, _)
doi_re_search(s, i) ==
    IF i > Len(s) THEN <<>>
    ELSE LET nd == RunLen(s, i + 3, DigitSet)
             slash == i + 3 + nd
             nc == RunLen(s, slash + 1, DoiClass)
         IN IF /\ i + 2 <= Len(s) /\ SubSeq(s, i, i + 2) = <<"1","0",".">>
               /\ nd >= 4 /\ nd <= 9
               /\ slash <= Len(s) /\ s[slash] = "/"
               /\ nc >= 1
            THEN SubSeq(s, i, slash + nc)
            ELSE doi_re_search(s, i + 1)

\* Lines 286-307.
harden_doi(h, aux) ==
    LET doi == h.md["doi"]
    IN IF IsBlank(doi)
       THEN IF Truthy(aux.front_doi)
            THEN harden_fix(h, "doi", "front_matter_scan", None, aux.front_doi)
            ELSE h
       ELSE LET m == doi_re_search(PyStr(doi), 1)
            IN IF m # <<>> /\ Str(m) # doi
               THEN harden_fix(h, "doi", "normalize_extract", doi, Str(m))
               ELSE h

\* Lines 310-315.
harden_journal(h) ==
    LET journal == IF Truthy(h.md["journal_full"]) THEN h.md["journal_full"]
                   ELSE h.md["journal"]
    IN IF Truthy(journal) /\ h.md["journal_full"] # journal
       THEN harden_fix(h, "journal_full", "canonicalize", h.md["journal_full"], journal)
       ELSE h

\* Lines 318-327: the metadata gets the whole abstract, the patch its
\* first AbstractPatchMax characters.
harden_abstract(h, aux) ==
    IF IsBlank(h.md["abstract"]) /\ Truthy(aux.struct_abstract)
    THEN LET a == aux.struct_abstract.s
             cut == SubSeq(a, 1, IF Len(a) < AbstractPatchMax THEN Len(a)
                                 ELSE AbstractPatchMax)
         IN [md |-> [h.md EXCEPT !["abstract"] = Str(a)],
             patches |-> add_patch(h.patches, MdPath("abstract"), None, Str(cut),
                                   "from_structure", ConfDefault),
             fixes |-> Append(h.fixes, "from_structure")]
    ELSE h

\* status: "error" (unreadable), "crash" (uncaught exception), "unchanged"
\* or "changed"; obj: new_obj.
harden_one(file) ==
    IF file.shape = "bad_json"
    THEN [status |-> "error", obj |-> file, fixes |-> <<>>]
    ELSE IF file.shape = "top_list"
    THEN [status |-> "crash", obj |-> file, fixes |-> <<>>]
    ELSE IF file.shape # "ok"
    THEN [status |-> "unchanged", obj |-> file, fixes |-> <<>>]
    ELSE LET h0 == [md |-> file.md, patches |-> file.patches, fixes |-> <<>>]
             h1 == harden_title(h0, file.aux)
             h2 == harden_year(h1, file.aux)
             h3 == harden_authors(h2, file.aux)
             h4 == harden_doi(h3, file.aux)
             h5 == harden_journal(h4)
             h6 == harden_abstract(h5, file.aux)
         IN [status |-> IF h6.fixes # <<>> THEN "changed" ELSE "unchanged",
             obj |-> [file EXCEPT !.md = h6.md, !.patches = h6.patches],
             fixes |-> h6.fixes]

-----------------------------------------------------------------------------
(* Online enrichment: enrich_one and the file loop of enrich_online.py *)

AcceptHigh  == 92
AcceptLow   == 88
BonusYear   == 4
BonusAuthor == 6

CrossrefItem(doi, title, container_title, year, first_author_family, volume) ==
    [doi |-> doi, title |-> title, container_title |-> container_title,
     year |-> year, volume |-> volume, issue |-> None, pages |-> None,
     issn |-> None, url |-> None, first_author_family |-> first_author_family]

first_author_family(md_authors) ==
    IF ~IsList(md_authors) \/ md_authors.s = <<>> THEN None
    ELSE LET first == md_authors.s[1]
         IN IF first.d
            THEN IF Strip(first.family) # <<>> THEN Str(Lower(Strip(first.family)))
                 ELSE LET parts == Split(first.display)
                      IN IF parts # <<>> THEN Str(Lower(parts[Len(parts)])) ELSE None
            ELSE LET parts == Split(first.display)
                 IN IF parts # <<>> THEN Str(Lower(parts[Len(parts)])) ELSE None

\* score_candidate: the Jaccard score plus the bonuses, as a fraction
score_candidate(src_title, src_year, src_first_last, cand) ==
    LET sj == jaccard(token_set(src_title), token_set(cand.title))
        bonus == (IF Truthy(src_year) /\ Truthy(cand.year) /\ src_year.n = cand.year.n
                  THEN BonusYear ELSE 0)
                 + (IF Truthy(src_first_last) /\ Truthy(cand.first_author_family)
                       /\ src_first_last = cand.first_author_family
                    THEN BonusAuthor ELSE 0)
    IN <<100 * sj[1] + bonus * sj[2], 100 * sj[2]>>

RECURSIVE enrich_best(_, _, _, _, _, _)
enrich_best(cands, title, year, first_last, i, best) ==
    IF i > Len(cands) THEN best
    ELSE LET sc == score_candidate(title, year, first_last, cands[i])
         IN enrich_best(cands, title, year, first_last, i + 1,
                        IF FracGt(sc, best[2]) THEN <<i, sc>> ELSE best)

FracGe(x, pct) == x[1] * 100 >= pct * x[2]

\* e = [md, patches, changed]
enrich_set(e, key, old, val, score) ==
    [md |-> [e.md EXCEPT ![key] = val],
     patches |-> add_patch(e.patches, MdPath(key), old, val, "crossref", score),
     changed |-> Append(e.changed, key)]

enrich_fill(e, key, val, score) ==
    IF Truthy(val) /\ ~Truthy(e.md[key]) THEN enrich_set(e, key, e.md[key], val, score)
    ELSE e

\* Lines 219-221: the acceptance test of the best candidate.
enrich_accept(score, year, first_last, cand) ==
    \/ FracGe(score, AcceptHigh)
    \/ /\ FracGe(score, AcceptLow)
       /\ Truthy(year) /\ cand.year = year
       /\ Truthy(first_last)
       /\ cand.first_author_family = first_last

enrich_doi(e, cand, score, need_doi) ==
    IF need_doi /\ Truthy(cand.doi)
    THEN enrich_set(e, "doi", e.md["doi"], cand.doi, score)
    ELSE e

\* the previous value logged is md.get("journal") or md.get("journal_full")
enrich_journal(e, cand, score, need_journal) ==
    IF need_journal /\ Truthy(cand.container_title)
    THEN enrich_set(e, "journal",
                    IF Truthy(e.md["journal"]) THEN e.md["journal"]
                    ELSE e.md["journal_full"],
                    cand.container_title, score)
    ELSE e

enrich_year_norm(e, cand, score) ==
    IF Truthy(cand.year) /\ ~Truthy(e.md["year_norm"])
    THEN enrich_set(e, "year_norm", e.md["year_norm"],
                    Str(IntToStr(cand.year.n)), score)
    ELSE e

\* Lines 223-249: the fields an accepted candidate fills.
enrich_apply(file, cand, score, need_doi, need_journal) ==
    LET e0 == [md |-> file.md, patches |-> file.patches, changed |-> <<>>]
        e1 == enrich_doi(e0, cand, score, need_doi)
        e2 == enrich_journal(e1, cand, score, need_journal)
        e3 == enrich_fill(e2, "volume", cand.volume, score)
        e4 == enrich_fill(e3, "issue", cand.issue, score)
        e5 == enrich_fill(e4, "pages", cand.pages, score)
        e6 == enrich_fill(e5, "issn", cand.issn, score)
        e7 == enrich_fill(e6, "url", cand.url, score)
    IN enrich_year_norm(e7, cand, score)

enrich_result(file, e) ==
    [raised |-> FALSE, obj |-> [file EXCEPT !.md = e.md, !.patches = e.patches],
     changed |-> e.changed]

\* Lines 209-249, entered with a non-empty candidate list.
enrich_choose(file, cands, title, year, first_last, need_doi, need_journal, best) ==
    IF best[1] = 0
       \/ ~enrich_accept(best[2], year, first_last, cands[best[1]])
    THEN [raised |-> FALSE, obj |-> file, changed |-> <<>>]
    ELSE enrich_result(file, enrich_apply(file, cands[best[1]], best[2],
                                          need_doi, need_journal))

\* Lines 190-208 on the values read from the metadata.
enrich_query(file, cands, title, year, first_last, need_doi, need_journal) ==
    IF file.shape = "md_null" THEN [raised |-> TRUE, obj |-> file, changed |-> <<>>]
    ELSE IF ~(need_doi \/ need_journal)
    THEN [raised |-> FALSE, obj |-> file, changed |-> <<>>]
    ELSE IF ~IsStr(title) THEN [raised |-> TRUE, obj |-> file, changed |-> <<>>]
    ELSE IF cands = <<>> THEN [raised |-> FALSE, obj |-> file, changed |-> <<>>]
    ELSE enrich_choose(file, cands, title.s, year, first_last, need_doi, need_journal,
                       enrich_best(cands, title.s, year, first_last, 1, <<0, <<0, 1>>>>))

enrich_year(md) ==
    IF Truthy(md["year"]) THEN year_prefix(md["year"])
    ELSE IF IsNone(md["year_norm"]) THEN None
    ELSE year_prefix(md["year_norm"])

\* enrich_one(p, ua_email), with cands the answer of crossref_query (the
\* empty list when the request failed).  raised: an exception left it.
enrich_one(file, cands) ==
    enrich_query(file, cands,
                 IF Truthy(file.md["title"]) THEN file.md["title"] ELSE Str(<<>>),
                 enrich_year(file.md),
                 first_author_family(file.md["authors"]),
                 ~Truthy(file.md["doi"]),
                 ~(Truthy(file.md["journal"]) \/ Truthy(file.md["journal_full"])))

\* One turn of the file loop of main(), lines 278-307.
enrich_file(file, cands) ==
    IF file.shape = "bad_json"
    THEN [status |-> "error", obj |-> file, changed |-> <<>>]
    ELSE IF file.shape \in {"top_list", "md_str"}
    THEN [status |-> "crash", obj |-> file, changed |-> <<>>]
    ELSE IF Truthy(file.md["doi"])
            /\ (Truthy(file.md["journal"]) \/ Truthy(file.md["journal_full"]))
    THEN [status |-> "unchanged", obj |-> file, changed |-> <<>>]
    ELSE LET r == enrich_one(file, cands)
         IN IF r.raised THEN [status |-> "error", obj |-> file, changed |-> <<>>]
            ELSE [status |-> IF r.changed # <<>> THEN "changed" ELSE "unchanged",
                  obj |-> r.obj, changed |-> r.changed]

CrAbCd == CrossrefItem(Str(DoiA), TitleAbCd, Str(JournalJn), Num(2015),
                       Str(<<"r","o","e">>), Str(Vol7))
CrZzYy == CrossrefItem(Str(DoiZ), TitleZzYy, None, Num(2016), None, None)

\* what crossref_query may answer; <<>>: the request failed or found nothing
CrossrefReplies == {<<>>, <<CrZzYy, CrAbCd>>}

-----------------------------------------------------------------------------
(* One document through repeated passes *)

MaxPasses == 3

InitDoc ==
    /\ lib \in Libraries
    /\ overrides \in OvTables
    /\ strict \in BOOLEAN
    /\ dry_run = FALSE
    /\ min_fuzzy \in {MinFuzzyLow, MinFuzzyDefault}
    /\ pc = "passes"
    /\ idx = 0
    /\ summary = [c \in Counters |-> 0]
    /\ report = <<>>
    /\ outdir = [i \in 1 .. MaxFiles |-> NoFile]
    /\ exit_code = -1
    /\ last = NoLast
    /\ doc \in FileInputs
    /\ hist = <<>>
    /\ step = NoStep
    /\ ToolsIdle

DocFrame == UNCHANGED <<lib, overrides, strict, dry_run, min_fuzzy, pc, idx,
                        summary, report, outdir, exit_code, last, call, dd, ci, rt, en,
                        au, hd>>

\* A run of apply_zotero_metadata.py over the document, which is the first
\* file of its directory; the next pass reads what this one wrote.
ZoteroPass ==
    /\ pc = "passes"
    /\ Len(hist) < MaxPasses
    /\ \E o \in {reconcile_file(1, doc, Library(lib), OvTable(overrides), Args)} :
         /\ step' = [pass |-> "zotero", before |-> doc, after |-> o.obj,
                     status |-> o.status, written |-> o.written,
                     changed |-> o.changed, match |-> o.match, method |-> o.method]
         /\ doc' = IF o.written THEN o.obj ELSE doc
    /\ hist' = Append(hist, "zotero")
    /\ DocFrame

\* A run of harden_extracted.py: a changed document is written.
HardenPass ==
    /\ pc = "passes"
    /\ Len(hist) < MaxPasses
    /\ \E r \in {harden_one(doc)} :
         /\ step' = [pass |-> "harden", before |-> doc, after |-> r.obj,
                     status |-> r.status, written |-> r.status = "changed",
                     changed |-> r.fixes, match |-> 0, method |-> ""]
         /\ doc' = IF r.status = "changed" THEN r.obj ELSE doc
    /\ hist' = Append(hist, "harden")
    /\ DocFrame

\* A run of enrich_online.py: a changed document is written.
EnrichPass ==
    /\ pc = "passes"
    /\ Len(hist) < MaxPasses
    /\ \E cands \in CrossrefReplies :
       \E r \in {enrich_file(doc, cands)} :
         /\ step' = [pass |-> "enrich", before |-> doc, after |-> r.obj,
                     status |-> r.status, written |-> r.status = "changed",
                     changed |-> r.changed, match |-> 0, method |-> ""]
         /\ doc' = IF r.status = "changed" THEN r.obj ELSE doc
    /\ hist' = Append(hist, "enrich")
    /\ DocFrame

NextDoc == ZoteroPass \/ HardenPass \/ EnrichPass

SpecDoc == InitDoc /\ [][NextDoc]_vars

-----------------------------------------------------------------------------
(* dedupe_by_doi.py: the duplicate detector *)

\* the characters of file names and identifiers, in code-point order
CodeOrder == <<" ", "-", ".", "/">> \o DigitChars \o <<":">> \o UpperChars
             \o <<"_">> \o LowerChars

CharCodeOf == [c \in Range(CodeOrder) |->
                 CHOOSE i \in DOMAIN CodeOrder : CodeOrder[i] = c]

CharCode(c) == CharCodeOf[c]

\* a < b on str
RECURSIVE StrLt(_, _)
StrLt(a, b) ==
    IF b = <<>> THEN FALSE
    ELSE IF a = <<>> THEN TRUE
    ELSE IF Head(a) = Head(b) THEN StrLt(Tail(a), Tail(b))
    ELSE CharCode(Head(a)) < CharCode(Head(b))

\* sorted(s, key=...) on records that carry their sort key in the field key
RECURSIVE InsertByKey(_, _)
InsertByKey(x, s) ==
    IF s = <<>> THEN <<x>>
    ELSE IF StrLt(x.key, Head(s).key) THEN <<x>> \o s
    ELSE <<Head(s)>> \o InsertByKey(x, Tail(s))

RECURSIVE SortByKey(_)
SortByKey(s) == IF s = <<>> THEN <<>> ELSE InsertByKey(Head(s), SortByKey(Tail(s)))

\* sorted(paths): the files of one directory compare by their names
SortedPaths(paths) ==
    LET sorted == SortByKey([i \in DOMAIN paths |-> [key |-> paths[i]]])
    IN [i \in DOMAIN sorted |-> sorted[i].key]

\* s.split("/", n)[-1]
RECURSIVE AfterSlashes(_, _)
AfterSlashes(s, n) ==
    IF n = 0 \/ "/" \notin Range(s) THEN s
    ELSE IF Head(s) = "/" THEN AfterSlashes(Tail(s), n - 1)
    ELSE AfterSlashes(Tail(s), n)

norm_doi(v) ==
    IF ~Truthy(v) THEN <<>>
    ELSE LET s == Lower(Strip(PyStr(v)))
         IN IF StartsWith(s, DoiResolver) THEN AfterSlashes(s, 3) ELSE s

\* A file of the input directory: shape "absent", "bad_json" or "doc";
\* doi is metadata.doi, pdf is provenance.orig_pdf_filename or "".
DdFile(shape, doi, pdf) == [shape |-> shape, doi |-> doi, pdf |-> pdf]

ReportName == <<"p","r","o","c","e","s","s","i","n","g","_","r","e","p","o","r","t",
                ".","j","s","o","n">>

\* by_doi.setdefault(doi, []).append(p) on the insertion-ordered dict, a
\* sequence of [key |-> doi, files |-> paths]
dedupe_add(d, doi, p) ==
    IF \E i \in DOMAIN d : d[i].key = doi
    THEN [i \in DOMAIN d |->
            IF d[i].key = doi THEN [d[i] EXCEPT !.files = Append(@, p)] ELSE d[i]]
    ELSE Append(d, [key |-> doi, files |-> <<p>>])

RECURSIVE list_loop(_, _, _)
list_loop(dir, listing, d) ==
    IF listing = <<>> THEN d
    ELSE list_loop(dir, Tail(listing),
                   IF Head(listing) = ReportName
                      \/ dir[Head(listing)].shape = "bad_json"
                      \/ norm_doi(dir[Head(listing)].doi) = <<>>
                   THEN d
                   ELSE dedupe_add(d, norm_doi(dir[Head(listing)].doi), Head(listing)))

\* glob: the order in which inp.glob("*.json") yields the files
list_duplicates(dir, glob) ==
    SelectSeq(list_loop(dir, SortedPaths(glob), <<>>), LAMBDA g : Len(g.files) > 1)

\* A faulty choice: the last file of the sorted group is kept.
dedupe_keep_last(files) == SortedPaths(files)[Len(files)]

\* Lines 62-63: keep = files[0] of the group sorted by str(p).
dedupe_keep(files) == SortedPaths(files)[1]

\* Lines 70-84 for one group: one row of duplicates_removed.csv per unlinked
\* file.
removal_rows(dir, g) ==
    LET keep == dedupe_keep(g.files)
        rest == SelectSeq(SortedPaths(g.files), LAMBDA p : p # keep)
    IN [i \in DOMAIN rest |->
          [doi |-> g.key, kept_file |-> keep, removed_file |-> rest[i],
           kept_pdf |-> dir[keep].pdf, removed_pdf |-> dir[rest[i]].pdf]]

RECURSIVE removal_report(_, _)
removal_report(dir, groups) ==
    IF groups = <<>> THEN <<>>
    ELSE removal_rows(dir, Head(groups)) \o removal_report(dir, Tail(groups))

\* A faulty mode test: the files are unlinked without --apply too.
dedupe_rows_always(dir, groups, apply) == removal_report(dir, groups)

\* Lines 54-86: the rows written and the files unlinked, under --apply only.
dedupe_rows(dir, groups, apply) ==
    IF apply THEN removal_report(dir, groups) ELSE <<>>

\* p.unlink(missing_ok=True) for every row
dedupe_unlink(dir, rows) ==
    [p \in DOMAIN dir |->
       IF \E i \in DOMAIN rows : rows[i].removed_file = p
       THEN DdFile("absent", None, <<>>) ELSE dir[p]]


(* The input directory of a detector run: every name holds nothing, a file
   that is not JSON, or a merged document. *)

NameUpperB == <<"B",".","j","s","o","n">>
NameA10    == <<"a","1","0",".","j","s","o","n">>
NameA2     == <<"a","2",".","j","s","o","n">>
NameLowerB == <<"b",".","j","s","o","n">>
DoiZUrl    == DoiResolver \o <<"1","0",".","9","/","Z"," ">>

DocNames == {NameUpperB, NameA10, NameA2, NameLowerB}

DdAbsent == DdFile("absent", None, <<>>)

DdBadJson == DdFile("bad_json", None, <<>>)
DdBlank   == DdFile("doc", None, PdfA)
DdDoiZ    == DdFile("doc", Str(DoiZ), PdfA)
DdDoiZUrl == DdFile("doc", Str(DoiZUrl), <<>>)
DdDoiA    == DdFile("doc", Str(DoiA), PdfB)

\* what each name of the directory may hold
DdContents(name) ==
    CASE name = NameUpperB -> {DdAbsent, DdBlank, DdDoiZ, DdDoiA}
      [] name = NameA10    -> {DdBadJson, DdDoiZUrl, DdDoiA}
      [] name = NameA2     -> {DdAbsent, DdDoiZ, DdDoiZUrl, DdDoiA}
      [] name = NameLowerB -> {DdBlank, DdDoiZ, DdDoiA}
      [] OTHER             -> {DdAbsent, DdDoiZ}

DdDirs == {dir \in [DocNames \cup {ReportName} ->
                      {DdAbsent, DdBadJson, DdBlank, DdDoiZ, DdDoiZUrl, DdDoiA}] :
             \A name \in DOMAIN dir : dir[name] \in DdContents(name)}

MaxRuns == 2

\* the orders in which the files of S can be enumerated
RECURSIVE Perms(_)
Perms(S) ==
    IF S = {} THEN {<<>>}
    ELSE UNION {{<<x>> \o s : s \in Perms(S \ {x})} : x \in S}

Present(dir) == {p \in DOMAIN dir : dir[p].shape # "absent"}

MainIdle ==
    /\ lib = 1
    /\ overrides = 0
    /\ strict = FALSE
    /\ dry_run = FALSE
    /\ min_fuzzy = MinFuzzyDefault
    /\ pc = "idle"
    /\ idx = 0
    /\ summary = [c \in Counters |-> 0]
    /\ report = <<>>
    /\ outdir = [i \in 1 .. MaxFiles |-> NoFile]
    /\ exit_code = -1
    /\ last = NoLast
    /\ doc = NoDoc
    /\ hist = <<>>
    /\ step = NoStep

MainFrame == UNCHANGED <<lib, overrides, strict, dry_run, min_fuzzy, pc, idx, summary,
                         report, outdir, exit_code, last, doc, hist, step>>

InitDedupe ==
    /\ MainIdle
    /\ call = NoTool /\ ci = NoTool /\ rt = NoTool /\ en = NoTool
    /\ au = NoTool /\ hd = NoTool
    /\ \E dir \in DdDirs, apply \in BOOLEAN :
         /\ dd = [pc |-> "ready", dir |-> dir, apply |-> apply, runs |-> 0,
                  before |-> dir, in_order |-> TRUE, dups |-> <<>>, removed |-> <<>>]

\* One run of main(): the report of the duplicate groups is written and,
\* under --apply, the extra files are unlinked.  The directory out/reports
\* of the removal report exists, as it does with the default --report
\* (line 45).
DedupeRun ==
    /\ dd.pc = "ready"
    /\ dd.runs < MaxRuns
    /\ \E glob \in Perms(Present(dd.dir)) :
       \E dups \in {SortByKey(list_duplicates(dd.dir, glob))} :
       \E rows \in {dedupe_rows(dd.dir, dups, dd.apply)} :
         dd' = [dd EXCEPT !.runs = @ + 1, !.before = dd.dir,
                          !.in_order = (glob = SortedPaths(glob)),
                          !.dups = dups, !.removed = rows,
                          !.dir = dedupe_unlink(dd.dir, rows)]
    /\ MainFrame
    /\ UNCHANGED <<call, ci, rt, en, au, hd>>

NextDedupe == DedupeRun

SpecDedupe == InitDedupe /\ [][NextDedupe]_vars

-----------------------------------------------------------------------------
(* ci_gate.py: the CI gate *)

KeyMissingDoi     == <<"m","i","s","s","i","n","g","_","d","o","i">>
KeyMissingJournal == <<"m","i","s","s","i","n","g","_","j","o","u","r","n","a","l">>
KeyMissingYear    == <<"m","i","s","s","i","n","g","_","y","e","a","r">>
KeyMissingTitle   == <<"m","i","s","s","i","n","g","_","t","i","t","l","e">>
KeyEmptyAuthors   == <<"e","m","p","t","y","_","a","u","t","h","o","r","s">>
KeyTotalFiles     == <<"t","o","t","a","l","_","f","i","l","e","s">>

\* the keys of the gates dict, in its order
GateKeys == <<KeyMissingDoi, KeyMissingJournal, KeyMissingYear, KeyMissingTitle,
              KeyEmptyAuthors>>

GateDefault == 0
ExitGateFailed == 1
MaxValue == 3
MaxCeiling == 1

\* s.get(k, 0)
GetOr0(s, k) == IF k \in DOMAIN s THEN s[k] ELSE 0

\* A faulty comparison: a value equal to its ceiling fails.
gate_exceeds_inclusive(val, limit) == val >= limit

gate_exceeds(val, limit) == val > limit

\* f"{k}={val} > {limit}"
gate_line(k, val, limit) ==
    k \o <<"=">> \o IntToStr(val) \o <<" ", ">", " ">> \o IntToStr(limit)

RECURSIVE gate_loop(_, _, _, _)
gate_loop(s, gates, i, failures) ==
    IF i > Len(GateKeys) THEN failures
    ELSE gate_loop(s, gates, i + 1,
                   IF gate_exceeds(GetOr0(s, GateKeys[i]), gates[GateKeys[i]])
                   THEN Append(failures, gate_line(GateKeys[i], GetOr0(s, GateKeys[i]),
                                                   gates[GateKeys[i]]))
                   ELSE failures)

\* main(summary_path): the failures printed and the exit status
ci_gate_main(s, gates) ==
    LET failures == gate_loop(s, gates, 1, <<>>)
    IN [failures |-> failures,
        exit |-> IF failures # <<>> THEN ExitGateFailed ELSE 0]

\* the quality summaries: any of the gated counts may be missing
CiSummaries ==
    UNION {[D \cup {KeyTotalFiles} -> 0 .. MaxValue] : D \in SUBSET Range(GateKeys)}

\* the ceilings: GATE_* overrides at most one default
CiGates ==
    {[k \in Range(GateKeys) |-> IF k = o THEN c ELSE GateDefault] :
       o \in Range(GateKeys), c \in GateDefault .. MaxCeiling}

InitCi ==
    /\ MainIdle
    /\ call = NoTool /\ dd = NoTool /\ rt = NoTool /\ en = NoTool
    /\ au = NoTool /\ hd = NoTool
    /\ \E s \in CiSummaries, gates \in CiGates :
         /\ s[KeyTotalFiles] = MaxValue
         /\ ci = [pc |-> "ready", summary |-> s, gates |-> gates,
                  failures |-> <<>>, exit |-> -1]

CiGate ==
    /\ ci.pc = "ready"
    /\ \E r \in {ci_gate_main(ci.summary, ci.gates)} :
         ci' = [ci EXCEPT !.pc = "done", !.failures = r.failures, !.exit = r.exit]
    /\ MainFrame
    /\ UNCHANGED <<call, dd, rt, en, au, hd>>

NextCi == CiGate

SpecCi == InitCi /\ [][NextCi]_vars

-----------------------------------------------------------------------------
(* The pure helpers, called on their own *)

MaxPieces == 3
MaxChars == 3

\* the concatenations of at most n members of pieces
RECURSIVE Words(_, _)
Words(pieces, n) ==
    IF n = 0 THEN {<<>>}
    ELSE Words(pieces, n - 1) \cup {p \o w : p \in pieces, w \in Words(pieces, n - 1)}

\* identifiers as they are met: missing, a number, blank, with the resolver
\* prefix once or more, with upper case and with white space
DoiInputs ==
    {None, Num(5)} \cup {Str(w) : w \in Words({DoiResolver, <<" ">>, DoiAUpper}, MaxPieces)}

TokenUniverse == {<<"a","b">>, <<"c","d">>, <<"e","f">>}

TextInputs == Words({<<"R">>, <<"E_ACUTE">>, <<"s">>, <<" ">>, <<"-">>}, MaxChars)

InitCall ==
    /\ MainIdle
    /\ dd = NoTool /\ ci = NoTool /\ rt = NoTool /\ en = NoTool
    /\ au = NoTool /\ hd = NoTool
    /\ \/ \E v \in DoiInputs :
            call = [pc |-> "ready", op |-> "norm_doi", a |-> v, b |-> None,
                    out |-> None, again |-> None]
       \/ \E a \in SUBSET TokenUniverse, b \in SUBSET TokenUniverse :
            call = [pc |-> "ready", op |-> "jaccard", a |-> a, b |-> b,
                    out |-> None, again |-> None]
       \/ \E s \in TextInputs :
            call = [pc |-> "ready", op |-> "norm_text", a |-> s, b |-> None,
                    out |-> None, again |-> None]

CallFrame == MainFrame /\ UNCHANGED <<dd, ci, rt, en, au, hd>>

\* norm_doi(v), then norm_doi of its result
CallNormDoi ==
    /\ call.pc = "ready" /\ call.op = "norm_doi"
    /\ \E o \in {norm_doi(call.a)} :
         call' = [call EXCEPT !.pc = "done", !.out = o, !.again = norm_doi(Str(o))]
    /\ CallFrame

\* jaccard(a, b), then jaccard(b, a)
CallJaccard ==
    /\ call.pc = "ready" /\ call.op = "jaccard"
    /\ call' = [call EXCEPT !.pc = "done", !.out = jaccard(call.a, call.b),
                            !.again = jaccard(call.b, call.a)]
    /\ CallFrame

\* norm_text(s), then norm_text of its result
CallNormText ==
    /\ call.pc = "ready" /\ call.op = "norm_text"
    /\ \E o \in {norm_text(call.a)} :
         call' = [call EXCEPT !.pc = "done", !.out = o, !.again = norm_text(o)]
    /\ CallFrame

NextCall == CallNormDoi \/ CallJaccard \/ CallNormText

SpecCall == InitCall /\ [][NextCall]_vars

-----------------------------------------------------------------------------
(* http_retry.py: a call wrapped by with_retries or made by fetch_with_retry *)

DefaultRetries == 3
InitialDelay == 1
BackoffFactor == 2
MaxDelay == 30
MaxRetries == 3

\* What one attempt may do: return, or raise httpx.TimeoutException,
\* httpx.NetworkError, httpx.HTTPStatusError with a status of the retry
\* list (429, 500, 502, 503, 504) or with another one, or another exception.
AttemptOutcomes == {"ok", "timeout", "network", "status_retry", "status_client", "other"}

\* the except clause that catches the failure retries it
retryable(kind, outcome) ==
    IF kind = "with_retries"
    THEN outcome \in {"timeout", "network", "status_retry", "status_client"}
    ELSE outcome \in {"timeout", "network", "status_retry"}

\* A faulty backoff: the delay is not capped by max_delay.
next_delay_uncapped(delay) == delay * BackoffFactor

\* delay = min(delay * backoff_factor, max_delay)
next_delay(delay) == Min({delay * BackoffFactor, MaxDelay})

\* One turn of "for attempt in range(max_retries + 1)".
retry_attempt(r, outcome) ==
    IF outcome = "ok"
    THEN [r EXCEPT !.pc = "done", !.result = "returned"]
    ELSE IF ~retryable(r.kind, outcome) \/ r.attempt = r.max_retries
    THEN [r EXCEPT !.pc = "done", !.result = "raised", !.error = outcome]
    ELSE [r EXCEPT !.attempt = @ + 1, !.error = outcome,
                   !.delay = next_delay(@),
                   !.slept = Append(@, next_delay(r.delay))]

\* initial_delay: the default, and one that reaches max_delay at once
InitialDelays == {InitialDelay, 20}

InitRetry ==
    /\ MainIdle
    /\ call = NoTool /\ dd = NoTool /\ ci = NoTool /\ en = NoTool
    /\ au = NoTool /\ hd = NoTool
    /\ \E kind \in {"with_retries", "fetch_with_retry"}, m \in 0 .. MaxRetries,
          d0 \in InitialDelays :
         rt = [pc |-> "calling", kind |-> kind, max_retries |-> m, attempt |-> 0,
               initial_delay |-> d0, delay |-> d0, slept |-> <<>>, result |-> "",
               error |-> ""]

RetryAttempt ==
    /\ rt.pc = "calling"
    /\ \E outcome \in AttemptOutcomes : rt' = retry_attempt(rt, outcome)
    /\ MainFrame
    /\ UNCHANGED <<call, dd, ci, en, au, hd>>

NextRetry == RetryAttempt

SpecRetry == InitRetry /\ [][NextRetry]_vars

\* The wrapped call returns or raises: each attempt comes to an end.
SpecRetryFair == SpecRetry /\ WF_vars(RetryAttempt)

-----------------------------------------------------------------------------
(* enrich_online.py: the batch run of main() *)

\* What the network does to one crossref_query call: whether urlopen
\* answers at the first try and at the retry without certificate
\* verification, and the items of the answer.
Net(first, second, items) == [first |-> first, second |-> second, items |-> items]

\* A faulty query: the items are handed on although both tries raised.
crossref_query_unguarded(net) == net.items

\* Lines 135-172: the empty list when both tries raise.
crossref_query(net) ==
    IF net.first \/ net.second THEN net.items ELSE <<>>

CrossrefNets == {Net(FALSE, FALSE, <<CrZzYy, CrAbCd>>),
                 Net(FALSE, TRUE, <<CrZzYy, CrAbCd>>),
                 Net(TRUE, TRUE, <<CrZzYy, CrAbCd>>),
                 Net(TRUE, TRUE, <<>>)}

EnrichInputs == {DocScenarioA, DocUnmatched, DocConflict, DocFuzzy, DocBadJson,
                 DocTopList, DocMdNull}

NoSummary == [written |-> FALSE]

InitEnrich ==
    /\ MainIdle
    /\ call = NoTool /\ dd = NoTool /\ ci = NoTool /\ rt = NoTool
    /\ au = NoTool /\ hd = NoTool
    /\ \E n \in 0 .. MaxFiles, dry \in BOOLEAN :
         en = [pc |-> "loop", n |-> n, dry_run |-> dry, idx |-> 0,
               changed |-> 0, unchanged |-> 0, errors |-> 0, rows |-> <<>>,
               out |-> [i \in 1 .. MaxFiles |-> NoFile],
               last |-> NoLast, summary |-> NoSummary]

\* the counters and the report row of one handled file (lines 281-307)
enrich_count(e, name, file, net, r) ==
    [e EXCEPT !.idx = name,
              !.changed = IF r.status = "changed" THEN @ + 1 ELSE @,
              !.unchanged = IF r.status = "unchanged" THEN @ + 1 ELSE @,
              !.errors = IF r.status = "error" THEN @ + 1 ELSE @,
              !.rows = Append(@, [file |-> name,
                                  status |-> IF r.status = "changed" /\ e.dry_run
                                             THEN "dry-run" ELSE r.status,
                                  changed_fields |-> r.changed]),
              !.out = IF r.status = "changed" /\ ~e.dry_run
                      THEN [@ EXCEPT ![name] = [present |-> TRUE, obj |-> r.obj]]
                      ELSE @,
              !.last = [name |-> name, input |-> file, net |-> net, r |-> r]]

\* One turn of "for p in files".  An exception raised outside the two try
\* blocks ends the process before the reports are written.
EnrichFile ==
    /\ en.pc = "loop"
    /\ en.idx < en.n
    /\ \E file \in EnrichInputs, net \in CrossrefNets :
       \E r \in {enrich_file(file, crossref_query(net))} :
         en' = IF r.status = "crash"
               THEN [en EXCEPT !.pc = "crashed", !.idx = @ + 1,
                               !.last = [name |-> en.idx + 1, input |-> file,
                                         net |-> net, r |-> r]]
               ELSE enrich_count(en, en.idx + 1, file, net, r)
    /\ MainFrame
    /\ UNCHANGED <<call, dd, ci, rt, au, hd>>

\* Lines 309-334: the reports and the summary.
EnrichFinish ==
    /\ en.pc = "loop"
    /\ en.idx = en.n
    /\ en' = [en EXCEPT !.pc = "done",
                        !.summary = [written |-> TRUE, total |-> en.n,
                                     changed |-> en.changed,
                                     unchanged |-> en.unchanged,
                                     errors |-> en.errors,
                                     dry_run |-> en.dry_run]]
    /\ MainFrame
    /\ UNCHANGED <<call, dd, ci, rt, au, hd>>

NextEnrich == EnrichFile \/ EnrichFinish

SpecEnrich == InitEnrich /\ [][NextEnrich]_vars

-----------------------------------------------------------------------------
(* audit_extracted.py: the quality auditor *)

ACK_TOKENS ==
    {<<"a","u","t","h","o","r"," ","c","o","n","t","r","i","b","u","t","i","o","n","s">>,
     <<"c","o","n","t","r","i","b","u","t","i","o","n">>,
     <<"g","u","a","r","a","n","t","o","r">>,
     <<"e","t","h","i","c","s">>,
     <<"c","o","n","f","l","i","c","t"," ","o","f"," ","i","n","t","e","r","e","s","t">>,
     <<"a","c","k","n","o","w","l","e","d","g">>,
     <<"f","u","n","d","i","n","g">>,
     <<"d","a","t","a"," ","a","v","a","i","l","a","b","i","l","i","t","y">>,
     <<"i","n","v","e","s","t","i","g","a","t","o","r"," ","l","i","s","t">>,
     <<"s","u","p","p","l","e","m","e","n","t","a","r","y">>}

\* sub in s
Contains(s, sub) ==
    \E i \in 1 .. (Len(s) - Len(sub) + 1) : SubSeq(s, i, i + Len(sub) - 1) = sub

\* detect_ack_like(tokens)[0]
detect_ack_like(tokens) ==
    \E i \in DOMAIN tokens : \E tok \in ACK_TOKENS : Contains(Lower(tokens[i]), tok)

\* is_blank(x) of audit_extracted.py: None, a blank string, an empty list
au_is_blank(x) ==
    CASE x.k = "none" -> TRUE
      [] x.k = "str"  -> Strip(x.s) = <<>>
      [] x.k = "list" -> x.s = <<>>
      [] OTHER        -> FALSE

IsMonthPart(p) ==
    /\ Len(p) = 3 /\ p[1] = "-"
    /\ \/ p[2] = "0" /\ p[3] \in DigitSet \ {"0"}
       \/ p[2] = "1" /\ p[3] \in {"0", "1", "2"}

IsDayPart(p) ==
    /\ Len(p) = 3 /\ p[1] = "-"
    /\ \/ p[2] = "0" /\ p[3] \in DigitSet \ {"0"}
       \/ p[2] \in {"1", "2"} /\ p[3] \in DigitSet
       \/ p[2] = "3" /\ p[3] \in {"0", "1"}

\* year_re.match(ys): four digits, then an optional month part and an
\* optional day part
year_re_match(ys) ==
    /\ Len(ys) >= 4
    /\ AllDigits(SubSeq(ys, 1, 4))
    /\ \/ Len(ys) = 4
       \/ Len(ys) = 7 /\ (IsMonthPart(SubSeq(ys, 5, 7)) \/ IsDayPart(SubSeq(ys, 5, 7)))
       \/ Len(ys) = 10 /\ IsMonthPart(SubSeq(ys, 5, 7)) /\ IsDayPart(SubSeq(ys, 8, 10))

\* s.split(";")
RECURSIVE SplitSemi(_, _, _)
SplitSemi(s, cur, acc) ==
    IF s = <<>> THEN Append(acc, cur)
    ELSE IF Head(s) = ";" THEN SplitSemi(Tail(s), <<>>, Append(acc, cur))
    ELSE SplitSemi(Tail(s), Append(cur, Head(s)), acc)

\* An entry of an authors list as the auditor reads it: a string (kind
\* "str", the text in display), a person object or a group object.
AuEntry(kind, display, given, family) ==
    [kind |-> kind, display |-> display, given |-> given, family |-> family]

\* (given + " " + family).strip()
au_full_name(a) == Strip(Strip(a.given) \o <<" ">> \o Strip(a.family))

\* Lines 113-134: the names the summary counters are computed from.
RECURSIVE au_norm_summary_list(_)
au_norm_summary_list(l) ==
    IF l = <<>> THEN <<>>
    ELSE (CASE Head(l).kind = "str" -> <<Strip(Head(l).display)>>
            [] Head(l).kind = "group" ->
                 IF Head(l).display # <<>> THEN <<Head(l).display>> ELSE <<>>
            [] OTHER ->
                 IF Strip(Head(l).given) # <<>> \/ Strip(Head(l).family) # <<>>
                 THEN <<au_full_name(Head(l))>> ELSE <<>>)
         \o au_norm_summary_list(Tail(l))

au_norm_summary(authors) ==
    CASE authors.k = "str" ->
           SelectSeq([i \in DOMAIN SplitSemi(authors.s, <<>>, <<>>) |->
                        Strip(SplitSemi(authors.s, <<>>, <<>>)[i])],
                     LAMBDA a : a # <<>>)
      [] authors.k = "list" -> au_norm_summary_list(authors.s)
      [] OTHER -> <<>>

\* Lines 182-201: the names the issue codes are computed from.
au_norm_detail(authors) ==
    IF authors.k = "list" THEN au_norm_summary_list(authors.s)
    ELSE <<PyStr(authors)>>

\* Lines 93-153: the summary counters one document adds to.
audit_counters(md) ==
    (IF au_is_blank(md.title) THEN {"missing_title"} ELSE {})
    \cup (IF au_is_blank(md.year) THEN {"missing_year"}
          ELSE IF ~year_re_match(Strip(PyStr(md.year))) THEN {"invalid_year_format"}
          ELSE {})
    \cup (IF IsNone(md.authors) THEN {"missing_authors"}
          ELSE IF au_norm_summary(md.authors) = <<>> THEN {"empty_authors"}
          ELSE IF detect_ack_like(au_norm_summary(md.authors)) THEN {"authors_ack_like"}
          ELSE {})
    \cup (IF ~Truthy(md.doi) \/ au_is_blank(md.doi) THEN {"missing_doi"} ELSE {})
    \cup (IF ~Truthy(md.journal) \/ au_is_blank(md.journal) THEN {"missing_journal"} ELSE {})
    \cup (IF ~Truthy(md.abstract) \/ au_is_blank(md.abstract) THEN {"missing_abstract"} ELSE {})

\* Lines 165-206: the issue codes of one document.
audit_issues(md) ==
    (IF au_is_blank(md.title) THEN {"META_TITLE_MISSING"} ELSE {})
    \cup (IF au_is_blank(md.year) THEN {"META_YEAR_MISSING"}
          ELSE IF ~year_re_match(Strip(PyStr(md.year))) /\ ~IsInt(md.year)
          THEN {"YEAR_FORMAT_INVALID"} ELSE {})
    \cup (IF ~Truthy(md.doi) \/ au_is_blank(md.doi) THEN {"META_DOI_MISSING"} ELSE {})
    \cup (IF ~Truthy(md.journal) \/ au_is_blank(md.journal) THEN {"META_JOURNAL_MISSING"} ELSE {})
    \cup (IF ~Truthy(md.abstract) \/ au_is_blank(md.abstract) THEN {"ABSTRACT_MISSING"} ELSE {})
    \cup (IF IsNone(md.authors) THEN {"AUTHORS_MISSING"}
          ELSE IF au_is_blank(md.authors) THEN {"AUTHORS_EMPTY"}
          ELSE (IF detect_ack_like(au_norm_detail(md.authors))
                THEN {"AUTHORS_ACK_LIKE"} ELSE {})
               \cup (IF md.authors.k = "list"
                        /\ \A i \in DOMAIN md.authors.s : md.authors.s[i].kind = "group"
                     THEN {"AUTHORS_GROUP_ONLY"} ELSE {}))

\* One turn of "for p in files": the counters added to and the detail row.
audit_file(f) ==
    IF f.shape = "bad_json"
    THEN [counters |-> {"total_files", "json_errors"}, issues |-> {}, error |-> "json_error"]
    ELSE IF f.shape = "no_md"
    THEN [counters |-> {"total_files", "missing_metadata"}, issues |-> {},
          error |-> "missing_metadata"]
    ELSE [counters |-> {"total_files"} \cup audit_counters(f.md),
          issues |-> audit_issues(f.md), error |-> ""]

AuditCounters == {"total_files", "json_errors", "missing_metadata", "missing_title",
                  "missing_year", "invalid_year_format", "missing_authors",
                  "empty_authors", "authors_ack_like", "missing_doi",
                  "missing_journal", "missing_abstract"}

AuMd(title, year, authors, doi, journal, abstract) ==
    [title |-> title, year |-> year, authors |-> authors, doi |-> doi,
     journal |-> journal, abstract |-> abstract]

AuFile(shape, md) == [shape |-> shape, md |-> md]

NameFunding == <<"F","u","n","d","i","n","g"," ","X">>
YearShort   == <<"1","5">>

AuPerson(name) == AuEntry("str", name, <<>>, <<>>)

AuGood == AuMd(Str(TitleAbCd), Str(YearIso), Lst(<<AuPerson(NameRoe)>>), Str(DoiA),
               Str(JournalJn), Str(AbstractRaw))

\* the corpus: documents of the pipeline and what else a directory holds
AuditInputs ==
    {AuFile("bad_json", AuGood), AuFile("no_md", AuGood), AuFile("ok", AuGood),
     AuFile("ok", AuMd(Str(<<>>), None, None, None, None, None)),
     AuFile("ok", [AuGood EXCEPT !.year = Str(YearShort),
                                 !.authors = Lst(<<AuPerson(NameFunding)>>)]),
     AuFile("ok", [AuGood EXCEPT !.year = Num(2015), !.authors = Lst(<<>>)]),
     AuFile("ok", [AuGood EXCEPT !.year = Num(99),
                                 !.authors = Str(<<"F","u","n","d","i","n","g",";","X">>)]),
     AuFile("ok", [AuGood EXCEPT !.authors = Lst(<<AuEntry("person", <<>>, <<>>, <<>>)>>),
                                 !.doi = Str(<<" ">>)]),
     AuFile("ok", [AuGood EXCEPT !.authors = Str(<<" ", ";", " ">>),
                                 !.journal = Str(<<>>)]),
     AuFile("ok", [AuGood EXCEPT !.authors = Lst(<<AuEntry("group", NameFunding, <<>>, <<>>)>>),
                                 !.abstract = Lst(<<>>)])}

MaxDocs == 2

InitAudit ==
    /\ MainIdle
    /\ call = NoTool /\ dd = NoTool /\ ci = NoTool /\ rt = NoTool /\ en = NoTool
    /\ hd = NoTool
    /\ \E n \in 0 .. MaxDocs : \E files \in [1 .. n -> AuditInputs] :
         au = [pc |-> "loop", files |-> files, read |-> files, idx |-> 0,
               summary |-> [c \in AuditCounters |-> 0], rows |-> <<>>,
               written |-> FALSE]

AuditFrame == MainFrame /\ UNCHANGED <<call, dd, ci, rt, en, hd>>

\* One turn of the file loop of audit_dir (lines 72-210).
AuditFile ==
    /\ au.pc = "loop"
    /\ au.idx < Len(au.files)
    /\ \E r \in {audit_file(au.files[au.idx + 1])} :
         au' = [au EXCEPT !.idx = @ + 1,
                          !.summary = [c \in AuditCounters |->
                                         IF c \in r.counters THEN @[c] + 1 ELSE @[c]],
                          !.rows = Append(@, [file |-> au.idx + 1, issues |-> r.issues,
                                              error |-> r.error])]
    /\ AuditFrame

\* Lines 212-226: quality_summary.json and quality_issues.csv are written.
AuditFinish ==
    /\ au.pc = "loop"
    /\ au.idx = Len(au.files)
    /\ au' = [au EXCEPT !.pc = "done", !.written = TRUE]
    /\ AuditFrame

NextAudit == AuditFile \/ AuditFinish

SpecAudit == InitAudit /\ [][NextAudit]_vars

-----------------------------------------------------------------------------
(* harden_extracted.py: the batch run of main() *)

DirSub == <<"s","u","b">>

\* A file below the input directory: dir is <<>> for the directory itself
\* or the name of a sub-directory.
HdPath(dir, name) == [dir |-> dir, name |-> name]

\* the parts of the path below the input directory
PathParts(p) == IF p.dir = <<>> THEN <<p.name>> ELSE <<p.dir, p.name>>

\* a < b on paths: the parts compare in turn
RECURSIVE PartsLt(_, _)
PartsLt(a, b) ==
    IF b = <<>> THEN FALSE
    ELSE IF a = <<>> THEN TRUE
    ELSE IF Head(a) = Head(b) THEN PartsLt(Tail(a), Tail(b))
    ELSE StrLt(Head(a), Head(b))

RECURSIVE InsertPath(_, _)
InsertPath(x, s) ==
    IF s = <<>> THEN <<x>>
    ELSE IF PartsLt(PathParts(x), PathParts(Head(s))) THEN <<x>> \o s
    ELSE <<Head(s)>> \o InsertPath(x, Tail(s))

\* sorted(p for p in in_dir.rglob("*.json") if p.name != "processing_report.json")
RECURSIVE harden_files(_, _)
harden_files(tree, todo) ==
    IF todo = {} THEN <<>>
    ELSE LET x == CHOOSE y \in todo : TRUE
         IN IF tree[x].shape = "absent" \/ x.name = ReportName
            THEN harden_files(tree, todo \ {x})
            ELSE InsertPath(x, harden_files(tree, todo \ {x}))

\* A faulty target: the sub-directory is kept in the output path.
harden_target_nested(p) == PathParts(p)

\* target = out_dir / p.name
harden_target(p) == <<p.name>>

HdPaths == {HdPath(<<>>, NameA2), HdPath(<<>>, NameUpperB),
            HdPath(DirSub, NameA2), HdPath(DirSub, ReportName)}

HdAbsent == [shape |-> "absent"]

\* what a path may hold
HardenInputs == {HdAbsent, DocAuthorYear, DocFuzzy, DocUnmatched, DocBadJson}

InitHarden ==
    /\ MainIdle
    /\ call = NoTool /\ dd = NoTool /\ ci = NoTool /\ rt = NoTool /\ en = NoTool
    /\ au = NoTool
    /\ \E tree \in [HdPaths -> HardenInputs], dry \in BOOLEAN :
         hd = [pc |-> "loop", tree |-> tree, files |-> harden_files(tree, HdPaths),
               dry_run |-> dry, idx |-> 0, changed |-> 0, unchanged |-> 0,
               errors |-> 0, writes |-> <<>>, out |-> <<>>, summary |-> FALSE]

HardenFrame == MainFrame /\ UNCHANGED <<call, dd, ci, rt, en, au>>

\* One turn of "for p in files", lines 369-395.
harden_step(h, p, res) ==
    IF res.status = "error"
    THEN [h EXCEPT !.idx = @ + 1, !.errors = @ + 1]
    ELSE IF res.status = "changed"
    THEN [h EXCEPT !.idx = @ + 1, !.changed = @ + 1,
                   !.writes = IF h.dry_run THEN @
                              ELSE Append(@, [target |-> harden_target(p), src |-> p]),
                   !.out = IF h.dry_run THEN @
                           ELSE (harden_target(p) :> [obj |-> res.obj, src |-> p]) @@ @]
    ELSE [h EXCEPT !.idx = @ + 1, !.unchanged = @ + 1]

HardenFile ==
    /\ hd.pc = "loop"
    /\ hd.idx < Len(hd.files)
    /\ \E p \in {hd.files[hd.idx + 1]} :
         hd' = harden_step(hd, p, harden_one(hd.tree[p]))
    /\ HardenFrame

\* Lines 397-424: the report and the summary are written.
HardenFinish ==
    /\ hd.pc = "loop"
    /\ hd.idx = Len(hd.files)
    /\ hd' = [hd EXCEPT !.pc = "done", !.summary = TRUE]
    /\ HardenFrame

NextHarden == HardenFile \/ HardenFinish

SpecHarden == InitHarden /\ [][NextHarden]_vars

-----------------------------------------------------------------------------
(* Properties *)

PrefixOf(s, t) == Len(s) <= Len(t) /\ SubSeq(t, 1, Len(s)) = s

\* The file the batch run has just handled, and what main() read for it.
LastRan     == last.name # 0
LastHandled == LastRan /\ last.o.status \notin {"error", "crash"}
LastItems   == Library(lib).items
LastEntry   == IF OvTable(overrides).on
               THEN Get(OvTable(overrides).by_filename, last.name)
               ELSE NoEntry
LastLoc     == Locals(last.input.md)
LastOverride == override_match(LastItems, LastEntry)
LastByDoi   == IF Truthy(LastLoc.doi_json)
               THEN by_doi(LastItems, LastLoc.doi_json.s) ELSE 0

\* C1: whenever the by-filename override entry of a document resolves to a
\* candidate, the final match is that candidate, with confidence 1.0 and an
\* override method tag, whatever the DOI and title steps would find.
C1_OverrideWins ==
    (LastHandled /\ LastOverride.match # 0)
    => /\ last.o.match = LastOverride.match
       /\ last.o.method \in {"override:doi", "override:id"}
       /\ last.o.conf = Num(ConfOne)

\* The override entry resolves to one candidate and the document leaves the
\* cascade matched to another one by its exact title.
C1_OverrideOverwritten ==
    /\ LastHandled
    /\ LastOverride.match # 0
    /\ last.o.match # LastOverride.match
    /\ last.o.method = "title_exact"

\* C2: a document without an override entry whose normalised DOI is a key
\* of by_doi is matched to that DOI's candidate, method doi, confidence 1.0,
\* even when a title step would match too.
C2_Case ==
    /\ LastHandled
    /\ LastEntry.kind = "none"
    /\ LastByDoi # 0

C2_DoiFirst ==
    C2_Case
    => /\ last.o.match = LastByDoi
       /\ last.o.method = "doi"
       /\ last.o.conf = Num(ConfOne)
       /\ "matched_doi" \in last.o.counters

\* The DOI names one candidate, the exact title another one, and the match
\* is the DOI's.
C2_DoiBeatsTitle ==
    /\ C2_Case
    /\ by_title(LastItems, LastLoc.tnorm) \notin {0, LastByDoi}
    /\ last.o.match = LastByDoi
    /\ last.o.method = "doi"

\* C3: a reconciliation run over the document the previous run wrote, with
\* the same library and override table, reports no changed field and
\* appends no patch.
C3_Idempotent ==
    [][(/\ step.pass = "zotero" /\ step.written
        /\ Len(hist') = Len(hist) + 1
        /\ step'.pass = "zotero"
        /\ step'.status \notin {"error", "crash"})
       => /\ step'.changed = <<>>
          /\ step'.after.patches = step'.before.patches]_vars

\* The second of two runs over a document has changed it again.
C3_SecondRunChanges ==
    /\ hist = <<"zotero", "zotero">>
    /\ step.status = "changed"
    /\ Len(step.before.patches) > 0
    /\ Len(step.after.patches) > Len(step.before.patches)

\* C4: every pass leaves the patches a document already had in place, in
\* their order, and only adds patches behind them: both in the document a
\* pass builds and in the file it leaves.
C4_AppendOnly ==
    [][/\ PrefixOf(doc.patches, doc'.patches)
       /\ (step'.pass # "" => PrefixOf(step'.before.patches, step'.after.patches))]_vars

PatchSources(patches) == {patches[i].source : i \in DOMAIN patches}

\* A document went through a Zotero run that applied manual overrides, a
\* hardening run and an enrichment run, and each of them logged patches.
C4_ThreePassesLogged ==
    /\ hist = <<"zotero", "harden", "enrich">>
    /\ {"manual_patch", "canonicalize", "crossref"} \subseteq PatchSources(doc.patches)
    /\ Len(doc.patches) >= 5

\* What one merge_fields call added to the ledger.
MergeRan     == LastRan /\ last.o.status \in {"changed", "unchanged"}
MergeNew     == SubSeq(last.o.obj.patches, Len(last.o.merge_in.patches) + 1,
                       Len(last.o.obj.patches))
IsMdPatch(p) == p.path[1] = "metadata"
MergeMdNew   == SelectSeq(MergeNew, IsMdPatch)
MergeOther   == SelectSeq(MergeNew, LAMBDA p : ~IsMdPatch(p))

ZoteroSource(key) ==
    CASE key = "title" -> "zotero:title"
      [] key = "year_norm" -> "zotero:year_norm"
      [] key = "authors" -> "zotero:authors"
      [] key = "doi" -> "zotero:doi"
      [] key = "journal" -> "zotero:journal"
      [] key = "abstract" -> "zotero:abstract"
      [] key = "volume" -> "zotero:volume"
      [] key = "issue" -> "zotero:issue"
      [] key = "pages" -> "zotero:pages"
      [] key = "issn" -> "zotero:issn"
      [] key = "url" -> "zotero:url"
      [] OTHER -> ""

MatchMethods == {"doi", "title_exact", "title_fuzzy", "author_year",
                 "override:doi", "override:id"}

\* C5: every patch merge_fields appends carries the method of the match as
\* its source tag, and merge_fields appends as many patches as it reports
\* changed fields.
C5_SourceIsMethod ==
    MergeRan
    => /\ Len(MergeNew) = Len(last.o.changed)
       /\ \A i \in DOMAIN MergeNew : MergeNew[i].source = last.o.method

\* What merge_fields does keep: it changes exactly the metadata fields it
\* reports; for the i-th reported field it appends one patch on that
\* field's path, from the previous to the new value, whose source tag is
\* zotero:<field>; besides these it appends at most one patch, on
\* provenance.orig_pdf_filename, which is not reported.
C5_OverwriteLogged ==
    MergeRan
    => /\ PrefixOf(last.o.merge_in.patches, last.o.obj.patches)
       /\ Len(MergeMdNew) = Len(last.o.changed)
       /\ \A i \in DOMAIN last.o.changed :
            LET key == last.o.changed[i]
                p == MergeMdNew[i]
            IN /\ p.path = MdPath(key)
               /\ p.op = "set"
               /\ p.source = ZoteroSource(key)
               /\ p.source \notin MatchMethods
               /\ p.from = last.o.merge_in.md[key]
               /\ p.to = last.o.obj.md[key]
               /\ p.from # p.to
       /\ \A key \in MdKeys :
            last.o.merge_in.md[key] # last.o.obj.md[key]
            => key \in Range(last.o.changed)
       /\ Len(MergeOther) <= 1
       /\ \A i \in DOMAIN MergeOther :
            /\ MergeOther[i].path = <<"provenance", "orig_pdf_filename">>
            /\ MergeOther[i].source = "zotero:csv"
            /\ MergeOther[i].to = last.o.obj.orig_pdf_filename

\* A merge that overwrote several fields and recorded the PDF file name.
C5_MergeWithPdfPatch ==
    /\ MergeRan
    /\ Len(last.o.changed) >= 3
    /\ Len(MergeOther) = 1

\* What one pass added to the ledger of the document it built.
StepRan        == step.pass # "" /\ step.status \notin {"error", "crash"}
StepNew        == SubSeq(step.after.patches, Len(step.before.patches) + 1,
                         Len(step.after.patches))
StepPatchesOf(key) == SelectSeq(StepNew, LAMBDA p : p.path = MdPath(key))

\* C6: whenever a pass changes the value of a metadata key, it appends a
\* patch on that key's path; the first such patch starts from the value the
\* key had and the last one ends at the value it has.
C6_LogMatchesMetadata ==
    StepRan
    => \A key \in MdKeys :
         step.before.md[key] # step.after.md[key]
         => /\ StepPatchesOf(key) # <<>>
            /\ StepPatchesOf(key)[1].from = step.before.md[key]
            /\ StepPatchesOf(key)[Len(StepPatchesOf(key))].to = step.after.md[key]

\* The hardening pass has set metadata.published and logged nothing for it.
C6_PublishedUnlogged ==
    /\ StepRan
    /\ step.pass = "harden"
    /\ step.before.md["published"] # step.after.md["published"]
    /\ StepPatchesOf("published") = <<>>

\* C7: a matched document's conflict flag is set exactly when its own DOI is
\* non-blank and differs (case and outer blanks aside) from the non-blank
\* DOI of the match; every flagged conflict adds one to the conflict
\* counter; in strict mode the flagged document is not written and the loop
\* goes on; outside strict mode (and outside a dry run, which writes
\* nothing) it is written merged; no other file of the output is touched.
C7_ConflictHandling ==
    [][(idx' = idx + 1 /\ last'.o.status \in {"changed", "unchanged"})
       => LET o == last'.o
              item == Library(lib).items[o.match]
              d == last'.input.md["doi"]
          IN /\ o.conflict <=> (/\ IsStr(d) /\ Strip(d.s) # <<>>
                                /\ IsStr(item.doi) /\ item.doi.s # <<>>
                                /\ Strip(Lower(d.s)) # item.doi.s)
             /\ summary'["doi_conflicts"] =
                    summary["doi_conflicts"] + (IF o.conflict THEN 1 ELSE 0)
             /\ (strict /\ o.conflict)
                => (~o.written /\ outdir'[idx'] = NoFile /\ pc' = "loop")
             /\ (~strict /\ ~dry_run /\ o.conflict)
                => outdir'[idx'] = [present |-> TRUE, obj |-> o.obj]
             /\ \A j \in DOMAIN outdir : j # idx' => outdir'[j] = outdir[j]]_vars

\* A strict run held back its first file for a conflict, counted it, and
\* went on to write its second file.
C7_ConflictThenWrite ==
    /\ strict
    /\ idx = 2
    /\ report[1].doi_conflict
    /\ outdir[1] = NoFile
    /\ outdir[2] # NoFile
    /\ summary["doi_conflicts"] = 1

\* C8: after the reports are written the exit code is 2 when strict mode is
\* on and unmatched/total exceeds 5%; else 3 when strict mode is on and a
\* conflict was counted; else 0.  7 unmatched of 100 without conflicts gives
\* 2, a ratio of exactly 5% does not give 2, and a non-strict run gives 0.
C8_ExitCodes ==
    pc = "done"
    => LET over == summary["total"] > 0
                   /\ 20 * summary["unmatched"] > summary["total"]
       IN /\ (strict /\ over) => exit_code = 2
          /\ (strict /\ ~over /\ summary["doi_conflicts"] > 0) => exit_code = 3
          /\ (~strict \/ (~over /\ summary["doi_conflicts"] = 0)) => exit_code = 0
          /\ (strict /\ summary["total"] = 100 /\ summary["unmatched"] = 7)
             => exit_code = 2
          /\ 20 * summary["unmatched"] = summary["total"] => exit_code # 2
          /\ ~strict => exit_code \notin {2, 3}

\* A strict run of 100 files ended with exactly 5% unmatched and exit code 0.
C8_ExactlyFivePercent ==
    /\ pc = "done"
    /\ strict
    /\ summary["total"] = 100
    /\ summary["unmatched"] = 5
    /\ summary["doi_conflicts"] = 0
    /\ exit_code = 0

\* A file that is not a JSON object with a metadata object and a string DOI.
Malformed(file) ==
    \/ file.shape \in {"bad_json", "top_list", "md_str"}
    \/ (file.shape = "ok" /\ Truthy(file.md["doi"]) /\ ~IsStr(file.md["doi"]))

\* C9: a malformed file is skipped and counted as an error, and the batch
\* goes on; the run never ends on an uncaught exception.
C9_ErrorsNeverAbort ==
    /\ pc # "crashed"
    /\ (LastRan /\ Malformed(last.input))
       => (last.o.status = "error" /\ "errors" \in last.o.counters)

\* A file whose top level is a list has ended the run on an uncaught
\* exception, with exit status 1 and no report.
C9_ListAbortsBatch ==
    /\ pc = "crashed"
    /\ last.input.shape = "top_list"
    /\ exit_code = ExitUncaught
    /\ "errors" \notin last.o.counters

\* The field values the override table names for the last file: by its
\* name and by its normalised title.
LastFnFields ==
    IF LastEntry.kind = "dict"
    THEN [key \in DOMAIN LastEntry.d \cap {"journal", "volume", "issue", "pages",
                                          "authors", "doi"} |-> LastEntry.d[key]]
    ELSE <<>>
LastTitleEntry ==
    IF OvTable(overrides).on THEN title_fields(OvTable(overrides), LastLoc)
    ELSE NoEntry
LastTitleFields ==
    IF LastTitleEntry.kind = "dict"
    THEN [key \in DOMAIN LastTitleEntry.d \cap {"journal", "pages", "authors"}
            |-> LastTitleEntry.d[key]]
    ELSE <<>>

OverrideLogged(f) ==
    \A key \in DOMAIN f :
      /\ last.o.obj.md[key] = f[key]
      /\ last.input.md[key] # f[key]
         => \E i \in DOMAIN last.o.obj.patches :
              /\ last.o.obj.patches[i].path = MdPath(key)
              /\ last.o.obj.patches[i].source = "manual_patch"
              /\ last.o.obj.patches[i].to = f[key]

\* C10: the fields an override entry names for a document, by file name or
\* by normalised title, hold the override's values in the resulting
\* document, each change logged as a manual patch, whether or not a
\* candidate matched; and that document is what a run that writes leaves
\* in the output directory.
C10_OverridesApplied ==
    (LastHandled /\ (DOMAIN LastFnFields # {} \/ DOMAIN LastTitleFields # {}))
    => /\ OverrideLogged(LastFnFields)
       /\ OverrideLogged(LastTitleFields)
       /\ ~dry_run => outdir[last.name] = [present |-> TRUE, obj |-> last.o.obj]

\* A matched document whose title has a by-title override keeps the
\* candidate's journal, not the override's.
C10_TitleOverrideSkipped ==
    /\ LastHandled
    /\ last.o.match # 0
    /\ "journal" \in DOMAIN LastTitleFields
    /\ DOMAIN LastFnFields = {}
    /\ last.o.obj.md["journal"] # LastTitleFields["journal"]

(* Duplicate detection *)

\* the documents of a directory: the parseable files other than the
\* processing report
DdDocs(dir) == {p \in DocNames : dir[p].shape = "doc"}

\* the sets of two or more documents with one non-blank normalized identifier
DdExpectedGroups(dir) ==
    {g \in {{q \in DdDocs(dir) : norm_doi(dir[q].doi) = norm_doi(dir[p].doi)} :
              p \in {d \in DdDocs(dir) : norm_doi(dir[d].doi) # <<>>}} :
       Cardinality(g) >= 2}

\* the lexicographically smallest path of a set
MinPath(S) == CHOOSE p \in S : \A q \in S \ {p} : StrLt(p, q)

DdRan == dd.pc = "ready" /\ dd.runs > 0

DdGroupOf(doi) == {Range(dd.dups[i].files) : i \in {j \in DOMAIN dd.dups : dd.dups[j].key = doi}}

\* C11: whatever the order in which the directory is enumerated, the groups
\* a detector run reports are exactly the sets of two or more documents
\* with the same non-blank normalized identifier, each file is listed once,
\* and the member kept of a group is its lexicographically smallest path.
C11_DedupeDeterministic ==
    DdRan =>
      /\ {Range(dd.dups[i].files) : i \in DOMAIN dd.dups} = DdExpectedGroups(dd.before)
      /\ \A i \in DOMAIN dd.dups :
           /\ Cardinality(Range(dd.dups[i].files)) = Len(dd.dups[i].files)
           /\ \A j \in DOMAIN dd.dups : dd.dups[j].key = dd.dups[i].key => j = i
           /\ dd.dups[i].key = norm_doi(dd.before[dd.dups[i].files[1]].doi)
           /\ dd.dups[i].files[1] = MinPath(Range(dd.dups[i].files))
      /\ \A r \in DOMAIN dd.removed :
           DdGroupOf(dd.removed[r].doi) = {g \in DdExpectedGroups(dd.before) :
                                             dd.removed[r].removed_file \in g}
           /\ \A g \in DdGroupOf(dd.removed[r].doi) :
                dd.removed[r].kept_file = MinPath(g)

\* C11 witness: the files were enumerated out of order, two documents whose
\* identifiers normalize to 10.9/z form a group of size 2, and the
\* alphabetically earlier one was kept.
C11_OutOfOrderKeepsSmallest ==
    /\ DdRan /\ dd.apply /\ ~dd.in_order
    /\ \E i \in DOMAIN dd.dups :
         /\ dd.dups[i].key = DoiZ
         /\ Range(dd.dups[i].files) = {NameUpperB, NameA10}
         /\ dd.before[NameUpperB].doi # dd.before[NameA10].doi
    /\ \E r \in DOMAIN dd.removed :
         dd.removed[r].kept_file = NameUpperB /\ dd.removed[r].removed_file = NameA10

\* the files a run unlinked
DdDeleted == {p \in DOMAIN dd.dir : dd.before[p].shape # "absent" /\ dd.dir[p].shape = "absent"}

\* the members of the duplicate groups other than the kept one
DdExtras(dir) == UNION {g \ {MinPath(g)} : g \in DdExpectedGroups(dir)}

DdRowsOf(p) == {r \in DOMAIN dd.removed : dd.removed[r].removed_file = p}

CiViolated == {k \in Range(GateKeys) :
                 k \in DOMAIN ci.summary /\ ci.summary[k] > ci.gates[k]}

CalledNormDoi == call.pc = "done" /\ call.op = "norm_doi"

\* C14: norm_doi is idempotent and total: norm_doi(norm_doi(x)) is
\* norm_doi(x) for every input, and a null or blank input gives "".
C14_NormDoiIdempotent ==
    CalledNormDoi =>
      /\ call.again = call.out
      /\ (IsNone(call.a) \/ (IsStr(call.a) /\ Strip(call.a.s) = <<>>)) => call.out = <<>>

\* C14 witness: the resolver prefix occurs twice; the first call strips one
\* occurrence and the second call strips the other.
C14_DoublePrefixTwoSteps ==
    /\ CalledNormDoi
    /\ call.a = Str(DoiResolver \o DoiResolver \o DoiAUpper)
    /\ call.out = DoiResolver \o DoiA
    /\ call.again = DoiA

CalledJaccard == call.pc = "done" /\ call.op = "jaccard"

\* C15: jaccard(a, b) is |a & b| / |a | b| when both sets are non-empty, 1
\* when both are empty and 0 when exactly one is; jaccard(a, b) equals
\* jaccard(b, a), jaccard(a, a) is 1 for a non-empty a, and the value lies
\* in [0, 1].
C15_Jaccard ==
    CalledJaccard =>
      /\ call.out[2] > 0
      /\ (call.a # {} /\ call.b # {}) =>
           call.out[1] * Cardinality(call.a \cup call.b)
             = Cardinality(call.a \cap call.b) * call.out[2]
      /\ (call.a = {} /\ call.b = {}) => call.out[1] = call.out[2]
      /\ ((call.a = {}) # (call.b = {})) => call.out[1] = 0
      /\ call.out[1] * call.again[2] = call.again[1] * call.out[2]
      /\ (call.a = call.b /\ call.a # {}) => call.out[1] = call.out[2]
      /\ 0 <= call.out[1] /\ call.out[1] <= call.out[2]

\* C15 witness: two overlapping sets of different sizes, scored 1/3 in
\* either order.
C15_OverlapOneThird ==
    /\ CalledJaccard
    /\ Cardinality(call.a) = 1 /\ Cardinality(call.b) = 3
    /\ call.out = <<1, 3>> /\ call.again = <<1, 3>>

CalledNormText == call.pc = "done" /\ call.op = "norm_text"

\* the spelling of s without its diacritics
Unaccented(s) == [i \in DOMAIN s |-> IF s[i] = "E_ACUTE" THEN "e" ELSE s[i]]

\* C16: norm_text is idempotent, its result holds only lower-case letters
\* and digits separated by single spaces with no space at either end, and a
\* letter with a diacritic is folded to its base letter inside its word, so
\* that a text and its unaccented spelling have the same key.
C16_NormTextFolds ==
    CalledNormText =>
      /\ call.again = call.out
      /\ \A i \in DOMAIN call.out :
           \/ call.out[i] \in Range(LowerChars) \cup DigitSet
           \/ /\ call.out[i] = " "
              /\ 1 < i /\ i < Len(call.out)
              /\ call.out[i + 1] # " "
      /\ call.out = norm_text(Unaccented(call.a))

\* C16 witness: the accented letter stands inside a word, and the key of the
\* text has a space where the key of the unaccented spelling has none.
C16_AccentSplitsWord ==
    /\ CalledNormText
    /\ call.a = <<"R", "E_ACUTE", "s">>
    /\ call.out = <<"r", "e", " ", "s">>
    /\ norm_text(<<"R", "e", "s">>) = <<"r", "e", "s">>

(* Scenarios of the cascade *)

\* Scenario A: the document has a title and a blank doi, there is no
\* override table, and the library holds one candidate with the same
\* normalized title, an identifier and the year 2015.
C17_Case ==
    /\ LastHandled
    /\ lib = 3 /\ overrides = 0
    /\ last.input = DocScenarioA
    /\ by_title(LastItems, LastLoc.tnorm) # 0

\* C17: in scenario A the document is matched with method title_exact and
\* confidence 1.0, its doi becomes the candidate's identifier, and exactly
\* one provenance patch is logged.
C17_ScenarioAOnePatch ==
    C17_Case
    => /\ last.o.method = "title_exact"
       /\ last.o.conf = Num(ConfOne)
       /\ last.o.obj.md["doi"] = Str(DoiA)
       /\ Len(last.o.obj.patches) = 1

\* C17 witness: scenario A ends matched by exact title with the doi filled
\* in, and with two patches in the ledger: year_norm, then doi.
C17_ScenarioATwoPatches ==
    /\ C17_Case
    /\ last.o.method = "title_exact"
    /\ last.o.obj.md["doi"] = Str(DoiA)
    /\ Len(last.o.obj.patches) = 2
    /\ last.o.obj.patches[1].path = MdPath("year_norm")
    /\ last.o.obj.patches[2].path = MdPath("doi")

\* the document's identifier in normal form is a key of by_identifier
C18_Case ==
    /\ LastHandled
    /\ LastEntry.kind = "none"
    /\ IsStr(last.input.md["doi"])
    /\ norm_doi(last.input.md["doi"]) # <<>>
    /\ by_doi(LastItems, norm_doi(last.input.md["doi"])) # 0

\* C18: a document whose identifier differs from an indexed identifier only
\* by letter case, surrounding white space or a leading resolver URL prefix
\* is matched to that identifier's candidate with method doi and
\* confidence 1.0.
C18_NormalizedDoiMatches ==
    C18_Case
    => /\ last.o.match = by_doi(LastItems, norm_doi(last.input.md["doi"]))
       /\ last.o.method = "doi"
       /\ last.o.conf = Num(ConfOne)

\* C18 witness: the identifier carries the resolver prefix of an indexed
\* identifier, and the document leaves the cascade unmatched.
C18_ResolverPrefixUnmatched ==
    /\ C18_Case
    /\ last.input = DocDoiUrl
    /\ by_doi(LastItems, DoiA) # 0
    /\ last.o.match = 0
    /\ last.o.status = "unmatched"

(* The retry policy *)

\* C19: a call wrapped by with_retries or made by fetch_with_retry ends by
\* handing a result to its caller, a failure result when every attempt
\* failed or a failure was not retryable; no exception leaves the wrapper.
C19_NoExceptionEscapes ==
    rt.pc = "done" => rt.result = "returned"

\* C19 witness: the default three retries are used up by time-outs, with
\* waits of 2, 4 and 8 seconds, and the wrapper re-raises the last one.
C19_ExhaustedRaises ==
    /\ rt.pc = "done"
    /\ rt.kind = "with_retries"
    /\ rt.max_retries = DefaultRetries
    /\ rt.attempt = rt.max_retries
    /\ rt.slept = <<2, 4, 8>>
    /\ rt.error = "timeout"
    /\ rt.result = "raised"

(* Online enrichment *)

EnLastRan == en.pc # "idle" /\ en.last # NoLast

\* main() goes on to a registry lookup for the last file
EnLooksUp ==
    /\ EnLastRan
    /\ en.last.input.shape = "ok"
    /\ IsStr(en.last.input.md["title"])
    /\ ~(Truthy(en.last.input.md["doi"])
         /\ (Truthy(en.last.input.md["journal"])
             \/ Truthy(en.last.input.md["journal_full"])))

EnLookupFailed == ~en.last.net.first /\ ~en.last.net.second

\* no item of the answer passes the acceptance test for the document
EnNothingAcceptable ==
    \A i \in DOMAIN en.last.net.items :
      ~enrich_accept(score_candidate(en.last.input.md["title"].s,
                                     enrich_year(en.last.input.md),
                                     first_author_family(en.last.input.md["authors"]),
                                     en.last.net.items[i]),
                     enrich_year(en.last.input.md),
                     first_author_family(en.last.input.md["authors"]),
                     en.last.net.items[i])

\* C20: a document whose registry lookup fails, or answers nothing
\* acceptable, is left as it was (same metadata, same patches, no file
\* written, counted as unchanged) and the loop goes on; every file of the
\* listing gets its row, and the summary has
\* total = changed + unchanged + errors.
C20_LookupFailureNotFatal ==
    /\ (EnLooksUp /\ (EnLookupFailed \/ EnNothingAcceptable))
       => /\ en.pc # "crashed"
          /\ en.last.r.status = "unchanged"
          /\ en.last.r.obj = en.last.input
          /\ en.out[en.last.name] = NoFile
          /\ en.rows[en.last.name].status = "unchanged"
    /\ en.pc = "loop" => /\ Len(en.rows) = en.idx
                         /\ en.idx = en.changed + en.unchanged + en.errors
    /\ en.pc = "done" => /\ Len(en.rows) = en.n
                         /\ en.summary.total = en.n
                         /\ en.summary.total = en.summary.changed
                              + en.summary.unchanged + en.summary.errors

\* C20 witness: the lookup of the last of two files failed at both tries and
\* the file was left alone; the file before it was enriched and written, and
\* the run ended with a summary of 2 = 1 + 1 + 0.
C20_FailedLookupThenDone ==
    /\ en.pc = "done" /\ ~en.dry_run
    /\ en.summary = [written |-> TRUE, total |-> 2, changed |-> 1, unchanged |-> 1,
                     errors |-> 0, dry_run |-> FALSE]
    /\ EnLooksUp /\ EnLookupFailed
    /\ en.last.input = DocScenarioA
    /\ en.last.name = 2
    /\ en.rows[1].status = "changed" /\ en.out[1] # NoFile
    /\ en.rows[2].status = "unchanged" /\ en.out[2] = NoFile

(* Quality auditor *)

\* the issue kinds that have a summary counter and an issue code
AuditPairs ==
    {<<"missing_title", "META_TITLE_MISSING">>, <<"missing_year", "META_YEAR_MISSING">>,
     <<"invalid_year_format", "YEAR_FORMAT_INVALID">>, <<"missing_doi", "META_DOI_MISSING">>,
     <<"missing_journal", "META_JOURNAL_MISSING">>, <<"missing_abstract", "ABSTRACT_MISSING">>,
     <<"missing_authors", "AUTHORS_MISSING">>, <<"empty_authors", "AUTHORS_EMPTY">>,
     <<"authors_ack_like", "AUTHORS_ACK_LIKE">>}

AuRowsWith(code) == {i \in DOMAIN au.rows : code \in au.rows[i].issues}

\* C21: when the audit has written its reports, every summary counter that
\* has an issue code equals the number of detail rows that list the code,
\* and the input documents are as they were read.
C21_SummaryMatchesDetails ==
    (au.pc = "done")
    => /\ \A pr \in AuditPairs : au.summary[pr[1]] = Cardinality(AuRowsWith(pr[2]))
       /\ au.files = au.read

\* C21 witness: the audit of one document whose only author object has no
\* name and one with an integer year of two digits ends with
\* empty_authors = 1 and invalid_year_format = 1 and no row that lists
\* AUTHORS_EMPTY or YEAR_FORMAT_INVALID.
C21_CountedButNotListed ==
    /\ au.pc = "done"
    /\ au.summary["empty_authors"] = 1
    /\ au.summary["invalid_year_format"] = 1
    /\ AuRowsWith("AUTHORS_EMPTY") = {}
    /\ AuRowsWith("YEAR_FORMAT_INVALID") = {}
    /\ Len(au.rows) = 2

(* Offline hardening run again *)

\* the last two passes were runs of harden_extracted.py, the second over the
\* document the first one returned
HardenedTwice ==
    /\ Len(hist) >= 2
    /\ hist[Len(hist)] = "harden"
    /\ hist[Len(hist) - 1] = "harden"
    /\ StepRan

\* C22: harden_one over a document harden_one produced reports no change:
\* its status is not "changed", its fix list is empty and it appends no
\* patch.
C22_HardenIdempotent ==
    HardenedTwice
    => /\ step.status = "unchanged"
       /\ step.changed = <<>>
       /\ step.after.patches = step.before.patches
       /\ step.after = step.before

\* C22 witness: the second hardening run over a hardened document reports
\* a change again and appends a patch.
C22_SecondHardenChanges ==
    /\ HardenedTwice
    /\ step.status = "changed"
    /\ step.changed # <<>>
    /\ Len(step.after.patches) > Len(step.before.patches)

(* The fuzzy title step *)

\* the steps before the fuzzy one found nothing and the title has a key
FuzzyReached ==
    /\ LastHandled
    /\ LastByDoi = 0
    /\ by_title(LastItems, LastLoc.tnorm) = 0

FuzzyScore(i) == jaccard(token_set(LastLoc.title), token_set(LastItems[i].title))

\* the first candidate, in input order, whose score no candidate exceeds
FuzzyFirstMax ==
    CHOOSE i \in DOMAIN LastItems :
        /\ \A j \in DOMAIN LastItems : ~FracGt(FuzzyScore(j), FuzzyScore(i))
        /\ \A j \in 1 .. (i - 1) : FracGt(FuzzyScore(i), FuzzyScore(j))

FuzzyAccepts == FuzzyScore(FuzzyFirstMax)[1] * ConfOne >= min_fuzzy * FuzzyScore(FuzzyFirstMax)[2]

\* C23 as stated: the fuzzy step accepts the first candidate of maximal
\* score exactly when that score reaches --min-fuzzy, with method
\* title_fuzzy and the score itself as confidence, and selects nothing
\* otherwise.
C23_FuzzyStepExactScore ==
    FuzzyReached
    => IF FuzzyAccepts
       THEN /\ last.o.match = FuzzyFirstMax
            /\ last.o.method = "title_fuzzy"
            /\ last.o.conf.n * FuzzyScore(FuzzyFirstMax)[2]
                 = ConfOne * FuzzyScore(FuzzyFirstMax)[1]
       ELSE last.o.method # "title_fuzzy"

\* C23 amended: for a document whose normalised title is not empty, the
\* fuzzy step accepts the first candidate of maximal score exactly when
\* that score reaches --min-fuzzy, with method title_fuzzy and the score
\* rounded to four decimals as confidence, and selects nothing otherwise.
C23_FuzzyStep ==
    (FuzzyReached /\ LastLoc.tnorm # <<>>)
    => IF FuzzyAccepts
       THEN /\ last.o.match = FuzzyFirstMax
            /\ last.o.method = "title_fuzzy"
            /\ last.o.conf = Num(Round4(FuzzyScore(FuzzyFirstMax)))
            /\ "matched_title_fuzzy" \in last.o.counters
       ELSE last.o.method # "title_fuzzy"

\* C23 witness: two candidates score 2/3 against the title "cd ef", the
\* threshold is 0.5, and the first of them is the match, at 0.6667.
C23_TieTakesFirst ==
    /\ FuzzyReached
    /\ \E i, j \in DOMAIN LastItems :
         i < j /\ FuzzyScore(i) = <<2, 3>> /\ FuzzyScore(j) = <<2, 3>>
               /\ last.o.match = i
    /\ last.o.method = "title_fuzzy"
    /\ last.o.conf = Num(6667)

(* Fields the merge only fills *)

BlankOnlyKeys == {"doi", "journal", "volume", "issue", "pages", "issn", "url"}

\* the candidate's value for a metadata key
CandidateValue(csl, key) == IF key = "journal" THEN csl.container_title ELSE csl[key]

\* C24: for doi, journal, volume, issue, pages, issn and url, merge_fields
\* leaves a non-blank value as it is and logs no patch for it, whatever the
\* candidate and the match method, a conflicting identifier included; a
\* value it does write replaces a blank one and is the candidate's.
C24_BlankOnlyOverwrite ==
    MergeRan
    => \A key \in BlankOnlyKeys :
         /\ Truthy(last.o.merge_in.md[key])
              => /\ last.o.obj.md[key] = last.o.merge_in.md[key]
                 /\ \A i \in DOMAIN MergeNew : MergeNew[i].path # MdPath(key)
         /\ last.o.obj.md[key] # last.o.merge_in.md[key]
              => /\ ~Truthy(last.o.merge_in.md[key])
                 /\ last.o.obj.md[key] = CandidateValue(LastItems[last.o.match], key)

\* C24 witness: the document's identifier and journal differ from the
\* matched candidate's; the merge keeps both and fills the blank volume.
C24_ConflictKeepsDoi ==
    /\ MergeRan
    /\ last.o.conflict
    /\ Truthy(last.o.merge_in.md["doi"])
    /\ last.o.merge_in.md["doi"] # LastItems[last.o.match].doi
    /\ last.o.obj.md["doi"] = last.o.merge_in.md["doi"]
    /\ Truthy(last.o.merge_in.md["journal"])
    /\ last.o.merge_in.md["journal"] # LastItems[last.o.match].container_title
    /\ last.o.obj.md["journal"] = last.o.merge_in.md["journal"]
    /\ IsNone(last.o.merge_in.md["volume"])
    /\ last.o.obj.md["volume"] = Str(Vol7)

(* Bounded retry *)

\* the waits follow the backoff rule from the initial delay on
BackoffFollowed(r) ==
    \A i \in DOMAIN r.slept :
        /\ r.slept[i] = Min({(IF i = 1 THEN r.initial_delay ELSE r.slept[i - 1])
                               * BackoffFactor, MaxDelay})
        /\ r.slept[i] <= MaxDelay
        /\ i > 1 => r.slept[i - 1] <= r.slept[i]

C25_Bounded ==
    rt.kind = "with_retries"
    => /\ rt.attempt <= rt.max_retries
       /\ Len(rt.slept) = rt.attempt
       /\ BackoffFollowed(rt)
       /\ rt.error = "other"
            => rt.pc = "done" /\ rt.result = "raised"
       /\ rt.result = "raised" /\ rt.error # "other" => rt.attempt = rt.max_retries

\* C25: a call wrapped by with_retries is made at most max_retries + 1
\* times and the wrapper comes to an end; it waits only between two
\* attempts, each wait is the one before times backoff_factor capped by
\* max_delay, so the waits never decrease and never exceed max_delay; a
\* failure that is no time-out, network or HTTP-status error is raised at
\* the attempt it happens, without a retry.
C25_BoundedRetry == [](C25_Bounded) /\ <>(rt.pc = "done")

\* C25 witness: three attempts fail from an initial delay of 20 seconds,
\* the waits are 30, 30 and 30, and the fourth attempt raises an error
\* that is not retried.
C25_CappedThenOther ==
    /\ rt.pc = "done"
    /\ rt.kind = "with_retries"
    /\ rt.max_retries = DefaultRetries
    /\ rt.initial_delay = 20
    /\ rt.slept = <<30, 30, 30>>
    /\ rt.attempt = 3
    /\ rt.error = "other"
    /\ rt.result = "raised"

(* The summary counters *)

OutcomeCounters == {"matched_doi", "matched_title_exact", "matched_title_fuzzy",
                    "matched_author_year", "unmatched", "errors"}

RECURSIVE SumOver(_, _)
SumOver(f, S) ==
    IF S = {} THEN 0
    ELSE LET c == CHOOSE x \in S : TRUE IN f[c] + SumOver(f, S \ {c})

\* C26: total is the sum of matched_doi, matched_title_exact,
\* matched_title_fuzzy, matched_author_year, unmatched and errors, and each
\* file the loop has handled added one to exactly one of the six, a file
\* matched through its override entry alone included.
C26_CountersPartition ==
    /\ summary["total"] = SumOver(summary, OutcomeCounters)
    /\ LastRan => Cardinality(last.o.counters \cap OutcomeCounters) = 1

\* C26 witness: the run ended without an exception, its last file was
\* matched through its by-filename override entry alone and written, and
\* total is one more than the sum of the six counters.
C26_OverrideCountsNowhere ==
    /\ pc = "done"
    /\ exit_code = 0
    /\ LastHandled
    /\ last.o.method \in {"override:id", "override:doi"}
    /\ last.o.written
    /\ last.o.counters \cap OutcomeCounters = {}
    /\ summary["total"] = SumOver(summary, OutcomeCounters) + 1

(* Every parsed document reaches the output *)

\* C27: in a run without --strict and without --dry-run, every document
\* the loop has parsed and handled is in the output directory, as the run
\* left it: merged, patched by an override, or passed through.
C27_EveryParsedWritten ==
    (LastHandled /\ ~strict /\ ~dry_run)
    => /\ last.o.written
       /\ outdir[last.name] = [present |-> TRUE, obj |-> last.o.obj]

\* C27 witness: an unmatched document has a by-title override entry that
\* changes nothing; the run without --strict and --dry-run reports it as
\* unmatched and writes no file for it.
C27_NoChangeOverrideDropped ==
    /\ LastHandled /\ ~strict /\ ~dry_run
    /\ last.o.match = 0
    /\ last.o.status = "unmatched"
    /\ DOMAIN LastTitleFields # {}
    /\ last.o.obj = last.input
    /\ ~last.o.written
    /\ ~outdir[last.name].present

(* Fuzzy matches share a word *)

\* C28: a document matched with method title_fuzzy has a title token in
\* common with its candidate; in particular a title whose key is not empty
\* but has no word of two letters is never matched by this step to a
\* candidate whose title has no such word either.
C28_FuzzySharesToken ==
    (LastHandled /\ last.o.method = "title_fuzzy")
    => token_set(LastLoc.title) \cap token_set(LastItems[last.o.match].title) # {}

\* C28 witness: the title "x y" and the candidate's title "A b" both have
\* an empty token set, their score is 1, and the document is matched to
\* the candidate with method title_fuzzy and confidence 1.0, and merged.
C28_TokenlessMatched ==
    /\ LastHandled
    /\ last.o.method = "title_fuzzy"
    /\ LastLoc.tnorm # <<>>
    /\ token_set(LastLoc.title) = {}
    /\ token_set(LastItems[last.o.match].title) = {}
    /\ last.o.conf = Num(ConfOne)
    /\ min_fuzzy = MinFuzzyDefault
    /\ last.o.status = "changed"

(* Patch confidence *)

\* a confidence, as a fraction, lies within [0, 1]
InUnitInterval(c) == 0 <= c[1] /\ c[1] <= c[2]

\* C29: every patch a pass has appended carries a confidence within
\* [0, 1]; in particular the confidence of an enrichment patch, the title
\* score plus the year and first-author bonuses, does not exceed 1.
C29_ConfidenceInUnitInterval ==
    StepRan => \A i \in DOMAIN StepNew : InUnitInterval(StepNew[i].confidence)

\* C29 witness: the enrichment pass accepted a candidate with the same
\* title and the same year as the document and logged its patches with a
\* confidence of 1.04.
C29_EnrichConfidenceAboveOne ==
    /\ StepRan
    /\ step.pass = "enrich"
    /\ step.status = "changed"
    /\ \E i \in DOMAIN StepNew :
         /\ StepNew[i].source = "crossref"
         /\ StepNew[i].confidence[1] * 100 = 104 * StepNew[i].confidence[2]

(* Output paths *)

\* C30: within one hardening run no two input files are written to the
\* same output file, whatever the layout of the input directory, files of
\* the same name in different sub-directories included.
C30_DistinctOutputPaths ==
    \A i, j \in DOMAIN hd.writes :
        hd.writes[i].src # hd.writes[j].src
          => hd.writes[i].target # hd.writes[j].target

\* C30 witness: a2.json and sub/a2.json were both changed and both written
\* to a2.json of the output directory, which holds the second one only,
\* while the summary counts two changed files.
C30_SubdirOverwrites ==
    /\ hd.pc = "done"
    /\ ~hd.dry_run
    /\ hd.changed = 2
    /\ Len(hd.writes) = 2
    /\ hd.writes[1].src = HdPath(<<>>, NameA2)
    /\ hd.writes[2].src = HdPath(DirSub, NameA2)
    /\ DOMAIN hd.out = {<<NameA2>>}
    /\ hd.out[<<NameA2>>].src = HdPath(DirSub, NameA2)
    /\ hd.tree[HdPath(<<>>, NameA2)] # hd.tree[HdPath(DirSub, NameA2)]
====
